---- MODULE Spec2Model ----
(***************************************************************************)
(* A model of the twitch-observer Observer class                           *)
(* (src/twitchobserver/twitchobserver.py): the frame decoder of the        *)
(* inbound worker, the server-message parser, the event dispatcher, the    *)
(* inbound and outbound worker threads, and the start/stop lifecycle; and  *)
(* the event queue of the earlier class TwitchChatObserver                 *)
(* (src/twitchobserver.py).                                                *)
(*                                                                         *)
(* Text is a sequence of one-character strings.  An optional attribute of  *)
(* a Python object (None, or an attribute never set) is the empty          *)
(* sequence <<>>, a present one is the one-element sequence <<v>>.         *)
(***************************************************************************)
EXTENDS Integers, Sequences, FiniteSets, TLC

(***************************************************************************)
(* Bounds of the model.                                                    *)
(***************************************************************************)
\* lines the server delivers over the life of one connection
MaxLines == 2
\* lines one recv() returns at most
MaxBatch == 2
\* commands the caller enqueues
MaxCmds == 2
\* values one call of _send_events is given at most
MaxArgs == 3
\* callbacks registered at the same time
MaxSubscribers == 2
\* the clock stops here
MaxTime == 4

\* bytes of the streams the frame decoder is fed
MaxStreamLen == 6
\* events the worker of the earlier class TwitchChatObserver creates
MaxEvents == 3

(***************************************************************************)
(* Program constants.                                                      *)
(***************************************************************************)
\* Observer._outbound_send_interval is 30 / 20 seconds (line 97); the clock
\* counts whole seconds
SendIntervalNum == 30
SendIntervalDen == 20

\* d seconds are more than the send interval: d > 30 / 20
MoreThanInterval(d) == d * SendIntervalDen > SendIntervalNum

\* d seconds are at least the send interval
AtLeastInterval(d) == d * SendIntervalDen >= SendIntervalNum

(***************************************************************************)
(* Characters and character classes of Python's re module.                 *)
(***************************************************************************)
UpperChars == {"A", "B", "C", "D", "E", "F", "G", "H", "I", "J", "K", "L", "M",
               "N", "O", "P", "Q", "R", "S", "T", "U", "V", "W", "X", "Y", "Z"}

LowerChars == {"a", "b", "c", "d", "e", "f", "g", "h", "i", "j", "k", "l", "m",
               "n", "o", "p", "q", "r", "s", "t", "u", "v", "w", "x", "y", "z"}

DigitChars == {"0", "1", "2", "3", "4", "5", "6", "7", "8", "9"}

\* the one non-ASCII character of the model: U+00E9, two bytes in UTF-8
EAcute == "U+00E9"

\* \w: a non-ASCII letter is alphanumeric for a str pattern
WordChars == UpperChars \cup LowerChars \cup DigitChars \cup {"_", EAcute}

\* \s
SpaceChars == {" ", "\t", "\r", "\n"}

PunctChars == {":", "!", "@", "#", "*", ".", "=", ";", "/", "-", "+"}

AllChars == WordChars \cup SpaceChars \cup PunctChars

\* \S
NonSpaceChars == AllChars \ SpaceChars

\* [^\r\n], and the dot of a pattern compiled without DOTALL (anything but \n)
NotCRLFChars == AllChars \ {"\r", "\n"}

DotChars == AllChars \ {"\n"}

(***************************************************************************)
(* String helpers: what str.split, str.rsplit and slicing compute.         *)
(***************************************************************************)
None == <<>>

Some(v) == <<v>>

\* s[i-1:j-1] of Python, as positions i .. j-1 of the sequence
Slice(s, i, j) == SubSeq(s, i, j - 1)

\* the position after the longest run of characters of class C starting at i
RECURSIVE SpanWhile(_, _, _)
SpanWhile(s, i, C) ==
    IF i <= Len(s) /\ s[i] \in C THEN SpanWhile(s, i + 1, C) ELSE i

\* does the literal lit occur in s at position i
LitAt(s, i, lit) ==
    /\ i + Len(lit) - 1 <= Len(s)
    /\ \A k \in 1..Len(lit) : s[i + k - 1] = lit[k]

\* the first position >= i at which lit occurs in s, or 0
RECURSIVE FindFrom(_, _, _)
FindFrom(s, i, lit) ==
    IF i + Len(lit) - 1 > Len(s) THEN 0
    ELSE IF LitAt(s, i, lit) THEN i
    ELSE FindFrom(s, i + 1, lit)

\* the last position at which lit occurs in s, or 0
RECURSIVE FindLastFrom(_, _, _)
FindLastFrom(s, i, lit) ==
    IF i < 1 THEN 0
    ELSE IF LitAt(s, i, lit) THEN i
    ELSE FindLastFrom(s, i - 1, lit)

Contains(s, lit) == FindFrom(s, 1, lit) # 0

\* str.split(lit): the pieces between the occurrences of lit, left to right
RECURSIVE Split(_, _)
Split(s, lit) ==
    IF FindFrom(s, 1, lit) = 0 THEN <<s>>
    ELSE <<Slice(s, 1, FindFrom(s, 1, lit))>>
         \o Split(Slice(s, FindFrom(s, 1, lit) + Len(lit), Len(s) + 1), lit)

\* str.rsplit(lit, 1) of a string that contains lit: <<before, after>> the
\* last occurrence
CutAt(s, p, n) == <<Slice(s, 1, p), Slice(s, p + n, Len(s) + 1)>>

RSplit1(s, lit) == CutAt(s, FindLastFrom(s, Len(s) - Len(lit) + 1, lit), Len(lit))

\* [m for m in seq if m]
RECURSIVE NonEmpty(_)
NonEmpty(ss) ==
    IF ss = <<>> THEN <<>>
    ELSE IF Head(ss) = <<>> THEN NonEmpty(Tail(ss))
    ELSE <<Head(ss)>> \o NonEmpty(Tail(ss))

CRLF == <<"\r", "\n">>

(***************************************************************************)
(* Literals of the protocol.                                               *)
(***************************************************************************)
PingLiteral == <<"P", "I", "N", "G", " ", ":", "t", "m", "i", ".", "t", "w", "i", "t", "c", "h", ".", "t", "v">>

PongLiteral == <<"P", "O", "N", "G", " ", ":", "t", "m", "i", ".", "t", "w", "i", "t", "c", "h", ".", "t", "v">>

AuthFailLiteral == <<":", "t", "m", "i", ".", "t", "w", "i", "t", "c", "h", ".", "t", "v", " ", "N", "O", "T", "I", "C", "E", " ", "*", " ", ":", "L", "o", "g", "i", "n", " ", "a", "u", "t", "h", "e", "n", "t", "i", "c", "a", "t", "i", "o", "n", " ", "f", "a", "i", "l", "e", "d">>

(***************************************************************************)
(* EventType and Event.__init__.                                           *)
(***************************************************************************)
CmdJOIN == <<"J", "O", "I", "N">>

CmdPART == <<"P", "A", "R", "T">>

CmdPRIVMSG == <<"P", "R", "I", "V", "M", "S", "G">>

CmdMODE == <<"M", "O", "D", "E">>

CmdCLEARCHAT == <<"C", "L", "E", "A", "R", "C", "H", "A", "T">>

CmdHOSTTARGET == <<"H", "O", "S", "T", "T", "A", "R", "G", "E", "T">>

CmdNOTICE == <<"N", "O", "T", "I", "C", "E">>

CmdRECONNECT == <<"R", "E", "C", "O", "N", "N", "E", "C", "T">>

CmdROOMSTATE == <<"R", "O", "O", "M", "S", "T", "A", "T", "E">>

CmdUSERNOTICE == <<"U", "S", "E", "R", "N", "O", "T", "I", "C", "E">>

CmdUSERSTATE == <<"U", "S", "E", "R", "S", "T", "A", "T", "E">>

CmdWHISPER == <<"W", "H", "I", "S", "P", "E", "R">>

\* the dictionary command_to_type of Event.__init__
command_to_type(command) ==
    CASE command = CmdJOIN -> "TWITCHCHATJOIN"
      [] command = CmdPART -> "TWITCHCHATLEAVE"
      [] command = CmdPRIVMSG -> "TWITCHCHATMESSAGE"
      [] command = CmdMODE -> "TWITCHCHATMODE"
      [] command = CmdCLEARCHAT -> "TWITCHCHATCLEARCHAT"
      [] command = CmdHOSTTARGET -> "TWITCHCHATHOSTTARGET"
      [] command = CmdNOTICE -> "TWITCHCHATNOTICE"
      [] command = CmdRECONNECT -> "TWITCHCHATRECONNECT"
      [] command = CmdROOMSTATE -> "TWITCHCHATROOMSTATE"
      [] command = CmdUSERNOTICE -> "TWITCHCHATUSERNOTICE"
      [] command = CmdUSERSTATE -> "TWITCHCHATUSERSTATE"
      [] command = CmdWHISPER -> "TWITCHCHATWHISPER"
      [] OTHER -> "TWITCHCHATCOMMAND"

\* Event(channel, command, message): channel and message are optional; the
\* attribute message is set only for a non-empty message
Event(channel, command, message) ==
    [type     |-> command_to_type(command),
     channel  |-> channel,
     command  |-> command,
     message  |-> IF message = <<>> THEN None ELSE Some(message),
     nickname |-> None,
     params   |-> None,
     mode     |-> None,
     tags     |-> None]

(***************************************************************************)
(* _server_message_re.match(message): the groups (tags, nick, cmd, params) *)
(* or no match.  The pattern reads, in order: an optional tag block ("@",  *)
(* a run of non-space characters, white space); ":" and the sender (a run  *)
(* of word characters, or tmi.twitch.tv with dots that match anything); an *)
(* optional "!" and word run; an optional "@", word run, any character and *)
(* tmi.twitch.tv; white space; the command (a run of capitals, or three    *)
(* digits); white space; the parameters (a run of anything but CR, LF).    *)
(* Every run but the host's is followed by a character outside its class,  *)
(* so the leftmost-greedy match the re module returns is found by taking   *)
(* each run greedily; the places where re backtracks to another            *)
(* alternative are spelled out (the sender "tmi.twitch.tv", the host's     *)
(* word run, and an empty command between two runs of white space).        *)
(***************************************************************************)
NoMatch == [matched |-> FALSE]

\* the literal tmi.twitch.tv of the pattern, whose dots match any character
ServerNameAt(s, i) ==
    /\ i + 12 <= Len(s)
    /\ LitAt(s, i, <<"t", "m", "i">>)
    /\ s[i + 3] \in DotChars
    /\ LitAt(s, i + 4, <<"t", "w", "i", "t", "c", "h">>)
    /\ s[i + 10] \in DotChars
    /\ LitAt(s, i + 11, <<"t", "v">>)

\* the first of two attempts that matches
FirstMatch(a, b) == IF a.matched THEN a ELSE b

\* the groups, the parameters being the run of anything but CR, LF from m
Groups(s, tags, nick, cmd, m) ==
    [matched |-> TRUE, tags |-> tags, nick |-> nick, cmd |-> cmd,
     params |-> Slice(s, m, SpanWhile(s, m, NotCRLFChars))]

\* the white space after the command, which ends at position from, and the
\* parameters
Rest(s, tags, nick, cmd, from) ==
    Groups(s, tags, nick, cmd, SpanWhile(s, from, SpaceChars))

\* the command after the white space h .. kmax-1: the run of capitals ends at
\* ue, the run of digits at de
CommandAt(s, h, tags, nick, kmax, ue, de) ==
    IF kmax = h THEN NoMatch
    ELSE IF ue <= Len(s) /\ s[ue] \in SpaceChars
        THEN Rest(s, tags, nick, Slice(s, kmax, ue), ue)
    ELSE IF de >= kmax + 3 /\ kmax + 3 <= Len(s) /\ s[kmax + 3] \in SpaceChars
        THEN Rest(s, tags, nick, Slice(s, kmax, kmax + 3), kmax + 3)
    ELSE IF kmax - h >= 2
        \* the first white-space run gives one character back: an empty command
        THEN Rest(s, tags, nick, <<>>, kmax - 1)
    ELSE NoMatch

CommandAfter(s, h, tags, nick, kmax) ==
    CommandAt(s, h, tags, nick, kmax, SpanWhile(s, kmax, UpperChars),
              SpanWhile(s, kmax, DigitChars))

\* white space, command, white space, parameters, from position h
MatchCommand(s, h, tags, nick) ==
    CommandAfter(s, h, tags, nick, SpanWhile(s, h, SpaceChars))

\* the largest element of a non-empty set of numbers
Max(S) == CHOOSE g \in S : \A h \in S : h <= g

\* the ends g of the host's word run after which the rest of the pattern
\* matches: any character, tmi.twitch.tv, the command
HostEnds(s, f, tags, nick) ==
    {g \in (f + 1)..SpanWhile(s, f + 1, WordChars) :
        /\ g <= Len(s) /\ s[g] \in DotChars
        /\ ServerNameAt(s, g + 1)
        /\ MatchCommand(s, g + 14, tags, nick).matched}

\* where the command part starts: after the host, if G is not empty
AfterHost(s, f, G) ==
    IF f <= Len(s) /\ s[f] = "@" /\ G # {} THEN Max(G) + 14 ELSE f

\* the optional host part ("@" word-run any tmi.twitch.tv) at position f, then
\* the command; the any-character after the word run may be a word character,
\* so re tries the word run from its longest to its shortest
MatchHost(s, f, tags, nick) ==
    MatchCommand(s, AfterHost(s, f, HostEnds(s, f, tags, nick)), tags, nick)

\* the optional user part ("!" word-run) at position e, then the host
MatchUser(s, e, tags, nick) ==
    FirstMatch(IF e <= Len(s) /\ s[e] = "!"
               THEN MatchHost(s, SpanWhile(s, e + 1, WordChars), tags, nick)
               ELSE NoMatch,
               MatchHost(s, e, tags, nick))

\* the sender is the word run that ends at e, or tmi.twitch.tv
SenderAt(s, p, tags, e) ==
    FirstMatch(MatchUser(s, e, tags, Slice(s, p + 1, e)),
               IF ServerNameAt(s, p + 1)
               THEN MatchUser(s, p + 14, tags, Slice(s, p + 1, p + 14))
               ELSE NoMatch)

\* ":" and the sender at position p, then the rest
MatchSender(s, p, tags) ==
    IF p <= Len(s) /\ s[p] = ":"
    THEN SenderAt(s, p, tags, SpanWhile(s, p + 1, WordChars))
    ELSE NoMatch

\* the tag block "@" non-space-run white-space, the run ending at j and the
\* white space at k, then the rest
Tagged(s, j, k) ==
    IF s # <<>> /\ s[1] = "@" /\ k > j
    THEN MatchSender(s, k, Some(Slice(s, 2, j)))
    ELSE NoMatch

TaggedAt(s, j) == Tagged(s, j, SpanWhile(s, j, SpaceChars))

\* the whole pattern, anchored at the start of the line; tags is None when
\* the optional group did not take part in the match
server_message_re(s) ==
    FirstMatch(TaggedAt(s, SpanWhile(s, 2, NonSpaceChars)), MatchSender(s, 1, None))

\* _privmsg_params_re: "#", a word run (the channel, ending at e), " :", the
\* message
PrivmsgAt(s, e) ==
    IF /\ s # <<>> /\ s[1] = "#"
       /\ e > 2
       /\ LitAt(s, e, <<" ", ":">>)
    THEN [matched |-> TRUE, channel |-> Slice(s, 2, e),
          message |-> Slice(s, e + 2, Len(s) + 1)]
    ELSE NoMatch

privmsg_params_re(s) == PrivmsgAt(s, SpanWhile(s, 2, WordChars))

\* _whisper_params_re: a word run (the recipient, ending at e), white space
\* (ending at k), ":", the message
WhisperAt(s, e, k) ==
    IF e > 1 /\ k > e /\ k <= Len(s) /\ s[k] = ":"
    THEN [matched |-> TRUE, recipient |-> Slice(s, 1, e),
          message |-> Slice(s, k + 1, Len(s) + 1)]
    ELSE NoMatch

WhisperFrom(s, e) == WhisperAt(s, e, SpanWhile(s, e, SpaceChars))

whisper_params_re(s) == WhisperFrom(s, SpanWhile(s, 1, WordChars))

\* _mode_params_re: "#", channel (ending at e), white space (ending at k),
\* "+o" or "-o", white space (ending at n), nickname (ending at w)
ModeAt(s, e, k, n, w) ==
    IF /\ s # <<>> /\ s[1] = "#"
       /\ e > 2 /\ k > e
       /\ k + 1 <= Len(s) /\ s[k] \in {"+", "-"} /\ s[k + 1] = "o"
       /\ n > k + 2 /\ w > n
    THEN [matched |-> TRUE, channel |-> Slice(s, 2, e),
          mode |-> Slice(s, k, k + 2), nickname |-> Slice(s, n, w)]
    ELSE NoMatch

ModeNick(s, e, k, n) == ModeAt(s, e, k, n, SpanWhile(s, n, WordChars))

ModeSign(s, e, k) == ModeNick(s, e, k, SpanWhile(s, k + 2, SpaceChars))

ModeChannel(s, e) == ModeSign(s, e, SpanWhile(s, e, SpaceChars))

mode_params_re(s) == ModeChannel(s, SpanWhile(s, 2, WordChars))

(***************************************************************************)
(* The body of the loop of _process_server_messages from the match on: the *)
(* event built from one line, or why none is built.                        *)
(***************************************************************************)
\* tag_pair.split('=') for each tag_pair of the pieces of tags.split(';')
SplitEach(pieces) == [i \in 1..Len(pieces) |-> Split(pieces[i], <<"=">>)]

TagPairs(tags) == SplitEach(Split(tags, <<";">>))

\* key, value = tag_pair.split('=') unpacks exactly two pieces
AllPairs(pairs) == \A i \in 1..Len(pairs) : Len(pairs[i]) = 2

TagsUnpack(tags) == AllPairs(TagPairs(tags))

\* the last entry of pairs with key k
LastWithKey(pairs, k) ==
    CHOOSE i \in 1..Len(pairs) :
        /\ pairs[i][1] = k
        /\ \A j \in 1..Len(pairs) : pairs[j][1] = k => j <= i

\* event.tags after the loop: a later entry overwrites an earlier one with
\* the same key
DictOf(pairs) ==
    [k \in {pairs[i][1] : i \in 1..Len(pairs)} |-> pairs[LastWithKey(pairs, k)][2]]

TagDict(tags) == DictOf(TagPairs(tags))

\* the fields set from a match m of the parameters' pattern
SetPrivmsg(event, m) ==
    IF m.matched
    THEN [event EXCEPT !.channel = Some(m.channel), !.message = Some(m.message)]
    ELSE event

SetWhisper(event, m) ==
    IF m.matched THEN [event EXCEPT !.message = Some(m.message)] ELSE event

SetMode(event, m) ==
    IF m.matched
    THEN [event EXCEPT !.channel = Some(m.channel), !.mode = Some(m.mode),
                       !.nickname = Some(m.nickname)]
    ELSE event

\* the fields the command's branch sets on the event
WithParams(event, cmd, params) ==
    IF cmd \in {CmdJOIN, CmdPART, CmdUSERSTATE, CmdROOMSTATE}
        THEN [event EXCEPT !.channel = Some(Slice(params, 2, Len(params) + 1))]
    ELSE IF cmd \in {CmdPRIVMSG, CmdHOSTTARGET, CmdNOTICE, CmdUSERNOTICE}
        THEN SetPrivmsg(event, privmsg_params_re(params))
    ELSE IF cmd = CmdWHISPER
        THEN SetWhisper(event, whisper_params_re(params))
    ELSE IF cmd = CmdMODE
        THEN SetMode(event, mode_params_re(params))
    ELSE event

\* the event of a match: command, nickname and parameters
BaseEvent(match) ==
    [Event(None, match.cmd, <<>>) EXCEPT !.nickname = Some(match.nick),
                                         !.params = Some(match.params)]

\* is there a tag block to unpack
HasTags(match) == match.tags # None /\ match.tags[1] # <<>>

\* what a match leads to
FromMatch(match) ==
    IF ~match.matched THEN [kind |-> "nomatch"]
    ELSE IF HasTags(match) /\ ~TagsUnpack(match.tags[1])
        THEN [kind |-> "ValueError"]
    ELSE [kind |-> "event",
          event |-> WithParams(
              IF HasTags(match)
              THEN [BaseEvent(match) EXCEPT !.tags = Some(TagDict(match.tags[1]))]
              ELSE BaseEvent(match),
              match.cmd, match.params)]

\* [kind |-> "nomatch"], [kind |-> "ValueError"] (the tag unpacking raised) or
\* [kind |-> "event", event |-> the event handed to the dispatcher]
ParseMessage(message) == FromMatch(server_message_re(message))

(***************************************************************************)
(* Event.dumps(): the line the outbound worker writes for a queued event.  *)
(* str.format renders an absent channel as the text None.                  *)
(***************************************************************************)
dumps(event) ==
    event.command \o <<" ", "#">>
        \o (IF event.channel = None THEN <<"N", "o", "n", "e">> ELSE event.channel[1])
        \o (IF event.message = None \/ event.message[1] = <<>> THEN <<>>
            ELSE <<" ", ":">> \o event.message[1])
        \o CRLF

(***************************************************************************)
(* State.                                                                  *)
(***************************************************************************)
VARIABLES
    \* the fields of the Observer (Observer.__init__)
    subscribers, inbound_worker_thread, outbound_worker_thread, is_running,
    socket, inbound_event_queue, outbound_event_queue, inbound_lock,
    outbound_lock, socket_lock, last_time_sent,
    \* the clock, the socket object, what was written to it, how many lines
    \* the server has delivered
    now, sockState, wire, delivered,
    \* the threads: where each one is, and its local variables
    pc, messages, event, cbIdx, force_stop, worker, stopCaller, outEvent,
    result, exc,
    \* the arguments _send_events still has to look at, and how many it has
    \* appended in the call under way
    events, appended,
    \* history, for stating the properties: the lines of the handshake
    \* response of start(); how start() ended; the events
    \* appended and not yet returned by get_events(); per dispatch, the
    \* callbacks invoked, whether the subscriber list changed meanwhile, the
    \* callbacks registered when it began and not unsubscribed since; the
    \* caller's last call when it was a subscribe or an unsubscribe; how many
    \* commands were enqueued; when the last queued command was written; what
    \* the caller's stop() found when called;
    \* whether a stop() has completed; who closed the socket, how often it
    \* was shut down and closed
    handshake, startResult, unreturned, notified, subsTouched, stayed, subCall,
    enqueued, sentAt, stopCtx, stopDone, closedBy, shutdowns, closes,
    \* the frame decoder of inbound_worker, fed a byte stream
    stream, readPos, truncated_response, lines_out, decoder,
    \* the parser and the serializer on their own: the line and what it is
    \* parsed to, the event and what it is dumped to
    line, parsed, outgoing, dumped,
    \* the earlier class TwitchChatObserver (src/twitchobserver.py): its event
    \* queue, the result of the get_events() under way, where its caller and
    \* its worker are, the events of the response the worker still has to
    \* process, how many events it has created; history: the events the
    \* get_events() calls have returned, in order
    event_queue, legacy_result, legacy_pc, legacy_events, legacy_created,
    legacy_returned

vars == <<subscribers, inbound_worker_thread, outbound_worker_thread, is_running,
          socket, inbound_event_queue, outbound_event_queue, inbound_lock,
          outbound_lock, socket_lock, last_time_sent,
          now, sockState, wire, delivered,
          pc, messages, event, cbIdx, force_stop, worker, stopCaller, outEvent,
          result, exc, events, appended,
          handshake, startResult, unreturned, notified, subsTouched, stayed, subCall,
          enqueued, sentAt, stopCtx, stopDone, closedBy, shutdowns, closes,
          stream, readPos, truncated_response, lines_out, decoder,
          line, parsed, outgoing, dumped,
          event_queue, legacy_result, legacy_pc, legacy_events, legacy_created,
          legacy_returned>>

\* the threads start() creates at lines 465 and 468: those of the first
\* call that gets there, and those of the second
InboundWorkers == {"in", "in2"}

OutboundWorkers == {"out", "out2"}

\* the caller's thread, the inbound workers, the outbound workers
Threads == {"main"} \cup InboundWorkers \cup OutboundWorkers

\* the threads that run _process_server_messages and stop(): the caller
\* (from start()) and the inbound workers
Runners == {"main"} \cup InboundWorkers

\* what the caller's stop() found when it was called
NoStop == [called |-> FALSE, enq |-> 0, queue |-> 0, open |-> FALSE,
           late |-> FALSE, popped |-> FALSE]

\* Observer.__init__
ObserverInit ==
    /\ subscribers = <<>>
    /\ inbound_worker_thread = "None"
    /\ outbound_worker_thread = "None"
    /\ is_running = TRUE
    /\ socket = "None"
    /\ inbound_event_queue = <<>>
    /\ outbound_event_queue = <<>>
    /\ inbound_lock = "None"
    /\ outbound_lock = "None"
    /\ socket_lock = "None"
    /\ last_time_sent = 0
    /\ now = 0
    /\ sockState = "unopened"
    /\ wire = <<>>
    /\ delivered = 0
    /\ pc = [t \in Threads |-> IF t = "main" THEN "idle" ELSE "unstarted"]
    /\ messages = [t \in Runners |-> <<>>]
    /\ event = [t \in Runners |-> None]
    /\ cbIdx = [t \in Runners |-> 0]
    /\ force_stop = [t \in Runners |-> FALSE]
    /\ worker = [t \in Runners |-> "None"]
    /\ stopCaller = [t \in Runners |-> "None"]
    /\ outEvent = [w \in OutboundWorkers |-> None]
    /\ result = <<>>
    /\ exc = [t \in Threads |-> "None"]
    /\ events = <<>>
    /\ appended = 0
    /\ handshake = <<>>
    /\ startResult = "None"
    /\ unreturned = <<>>
    /\ notified = [t \in Runners |-> <<>>]
    /\ subsTouched = [t \in Runners |-> FALSE]
    /\ stayed = [t \in Runners |-> {}]
    /\ subCall = None
    /\ enqueued = 0
    /\ sentAt = 0
    /\ stopCtx = NoStop
    /\ stopDone = FALSE
    /\ closedBy = "None"
    /\ shutdowns = 0
    /\ closes = 0

\* no line is being parsed and no event dumped on its own
CodecIdle ==
    /\ line = <<>>
    /\ parsed = None
    /\ outgoing = None
    /\ dumped = None

\* TwitchChatObserver.__init__: the queue is empty and no worker was started;
\* no get_events() is under way and nothing was returned
TwitchChatObserverInit ==
    /\ event_queue = <<>>
    /\ legacy_result = <<>>
    /\ legacy_pc = [caller |-> "idle", worker |-> "unstarted"]
    /\ legacy_events = <<>>
    /\ legacy_created = 0
    /\ legacy_returned = <<>>

(***************************************************************************)
(* The frame decoder: lines 411 to 425 of inbound_worker, fed the bytes of *)
(* a stream in chunks, and the split at the head of                        *)
(* _process_server_messages.                                               *)
(***************************************************************************)
\* the two bytes of U+00E9 in UTF-8
ByteC3 == "xC3"

ByteA9 == "xA9"

\* bytes.decode('utf-8'): the text, or ok = FALSE for UnicodeDecodeError (a
\* lead byte without its continuation byte, or a continuation byte alone)
RECURSIVE utf8_decode(_)
utf8_decode(bytes) ==
    IF bytes = <<>> THEN [ok |-> TRUE, text |-> <<>>]
    ELSE IF Head(bytes) = ByteC3
        THEN IF Len(bytes) >= 2 /\ bytes[2] = ByteA9
             THEN LET r == utf8_decode(SubSeq(bytes, 3, Len(bytes)))
                  IN  [ok |-> r.ok, text |-> <<EAcute>> \o r.text]
             ELSE [ok |-> FALSE, text |-> <<>>]
    ELSE IF Head(bytes) = ByteA9 THEN [ok |-> FALSE, text |-> <<>>]
    ELSE LET r == utf8_decode(Tail(bytes))
         IN  [ok |-> r.ok, text |-> <<Head(bytes)>> \o r.text]

\* lines 417 to 423: the response handed on and the new truncated_response
Reassemble(truncated, text) ==
    LET response == truncated \o text
    IN  IF Contains(response, CRLF)
        THEN [response |-> RSplit1(response, CRLF)[1],
              truncated_response |-> RSplit1(response, CRLF)[2]]
        ELSE [response |-> <<>>, truncated_response |-> response]

\* line 511: the messages _process_server_messages iterates over
MessagesOf(response) == NonEmpty(Split(response, CRLF))

\* what a line may hold between two terminators: a letter, a lone carriage
\* return, a two-byte character
BodyUnits == {<<"a">>, <<"\r">>, <<ByteC3, ByteA9>>}

LineBodies == {<<>>} \cup BodyUnits \cup {u \o v : u \in BodyUnits, v \in BodyUnits}

\* the streams: one or two lines, each ended by CR LF
Streams ==
    {s \in {b \o CRLF : b \in LineBodies}
           \cup {b \o CRLF \o c \o CRLF : b \in LineBodies, c \in LineBodies} :
        Len(s) <= MaxStreamLen}

DecoderIdle ==
    /\ stream = <<>>
    /\ readPos = 0
    /\ truncated_response = <<>>
    /\ lines_out = <<>>
    /\ decoder = "off"

\* one pass of the loop of inbound_worker: recv returns the next n bytes
InboundRead(n) ==
    /\ decoder = "running"
    /\ n \in 1..(Len(stream) - readPos)
    /\ LET chunk == SubSeq(stream, readPos + 1, readPos + n)
           data  == utf8_decode(chunk)
           r     == Reassemble(truncated_response, data.text)
       IN  /\ readPos' = readPos + n
           /\ IF data.ok
              THEN /\ truncated_response' = r.truncated_response
                   /\ lines_out' = lines_out \o MessagesOf(r.response)
                   /\ decoder' = decoder
              ELSE \* UnicodeDecodeError is no OSError: it ends the thread
                   /\ decoder' = "UnicodeDecodeError"
                   /\ UNCHANGED <<truncated_response, lines_out>>
    /\ UNCHANGED <<subscribers, inbound_worker_thread, outbound_worker_thread,
                   is_running, socket, inbound_event_queue,
                   outbound_event_queue, inbound_lock, outbound_lock,
                   socket_lock, last_time_sent, now, sockState, wire, delivered,
                   pc, messages, event, cbIdx, force_stop, worker, stopCaller,
                   outEvent, result, exc, events, appended, handshake,
                   startResult, unreturned, notified, subsTouched, stayed,
                   subCall, enqueued, sentAt, stopCtx, stopDone, closedBy,
                   shutdowns, closes, stream, line, parsed, outgoing, dumped,
                   event_queue, legacy_result, legacy_pc, legacy_events,
                   legacy_created, legacy_returned>>

InitDecoder ==
    /\ ObserverInit
    /\ CodecIdle
    /\ TwitchChatObserverInit
    /\ stream \in Streams
    /\ readPos = 0
    /\ truncated_response = <<>>
    /\ lines_out = <<>>
    /\ decoder = "running"

NextDecoder == \E n \in 1..MaxStreamLen : InboundRead(n)

SpecDecoder == InitDecoder /\ [][NextDecoder]_vars

\* lines 399 to 404 of start(): the first read of the connection is made by
\* the caller, which hands all of what it has read to
\* _process_server_messages; nothing of it is kept for the inbound worker,
\* whose truncated_response starts empty (line 411)
HandshakeRead(n) ==
    /\ decoder = "handshake"
    /\ n \in 1..(Len(stream) - readPos)
    /\ LET chunk == SubSeq(stream, readPos + 1, readPos + n)
           data  == utf8_decode(chunk)
       IN  /\ readPos' = readPos + n
           /\ IF data.ok
              THEN /\ lines_out' = lines_out \o MessagesOf(data.text)
                   /\ decoder' = "running"
              ELSE \* UnicodeDecodeError ends start()
                   /\ decoder' = "UnicodeDecodeError"
                   /\ UNCHANGED lines_out
    /\ UNCHANGED <<subscribers, inbound_worker_thread, outbound_worker_thread,
                   is_running, socket, inbound_event_queue,
                   outbound_event_queue, inbound_lock, outbound_lock,
                   socket_lock, last_time_sent, now, sockState, wire, delivered,
                   pc, messages, event, cbIdx, force_stop, worker, stopCaller,
                   outEvent, result, exc, events, appended, handshake,
                   startResult, unreturned, notified, subsTouched, stayed,
                   subCall, enqueued, sentAt, stopCtx, stopDone, closedBy,
                   shutdowns, closes, stream, truncated_response, line, parsed,
                   outgoing, dumped, event_queue, legacy_result, legacy_pc,
                   legacy_events, legacy_created, legacy_returned>>

InitHandshake ==
    /\ ObserverInit
    /\ CodecIdle
    /\ TwitchChatObserverInit
    /\ stream \in Streams
    /\ readPos = 0
    /\ truncated_response = <<>>
    /\ lines_out = <<>>
    /\ decoder = "handshake"

\* the read of start(), then the reads of the inbound worker
NextHandshake ==
    \/ \E n \in 1..MaxStreamLen : HandshakeRead(n)
    \/ NextDecoder

SpecHandshake == InitHandshake /\ [][NextHandshake]_vars

(***************************************************************************)
(* The parser and the serializer on their own: one line handed to the      *)
(* body of the loop of _process_server_messages, one event handed to       *)
(* Event.dumps() as the outbound worker does at line 456.                  *)
(***************************************************************************)
\* the senders of a line: what follows the colon, and the nickname in it
Senders ==
    {[text |-> <<"n", "!", "n", "@", "n", ".", "t", "m", "i", ".", "t", "w", "i", "t", "c", "h", ".", "t", "v">>,
      nick |-> <<"n">>],
     [text |-> <<"t", "m", "i", ".", "t", "w", "i", "t", "c", "h", ".", "t", "v">>,
      nick |-> <<"t", "m", "i", ".", "t", "w", "i", "t", "c", "h", ".", "t", "v">>],
     [text |-> <<"j", "t", "v">>, nick |-> <<"j", "t", "v">>]}

\* the tag blocks of a line, as lists of (key, value) entries: none, a=b,
\* color= (an empty value), a=b=c (a value with '=' in it), a=b;c=d
TagBlocks ==
    {<<>>,
     << <<<<"a">>, <<"b">>>> >>,
     << <<<<"c", "o", "l", "o", "r">>, <<>>>> >>,
     << <<<<"a">>, <<"b", "=", "c">>>> >>,
     << <<<<"a">>, <<"b">>>>, <<<<"c">>, <<"d">>>> >>}

\* the bodies of a message or a whisper
Bodies == {<<"t">>, <<"a", " ", ":", "b">>, <<>>}

CmdCAP == <<"C", "A", "P">>

Cmd001 == <<"0", "0", "1">>

\* a line of the server in its parts: command, parameters, and what the
\* parameters name (channel, body, mode, target), each absent or given
Part(cmd, params, channel, body, mode, target) ==
    [cmd |-> cmd, params |-> params, channel |-> channel, body |-> body,
     mode |-> mode, target |-> target]

CommandParts ==
    {Part(cmd, <<"#", "c">>, Some(<<"c">>), None, None, None) :
        cmd \in {CmdJOIN, CmdPART, CmdUSERSTATE, CmdROOMSTATE}}
    \cup {Part(cmd, <<"#", "c", " ", ":">> \o b, Some(<<"c">>), Some(b), None, None) :
        cmd \in {CmdPRIVMSG, CmdNOTICE}, b \in Bodies}
    \cup {Part(CmdWHISPER, <<"u", " ", ":">> \o b, None, Some(b), None, None) :
        b \in Bodies}
    \cup {Part(CmdMODE, <<"#", "c", " ", "+", "o", " ", "u">>, Some(<<"c">>), None,
               Some(<<"+", "o">>), Some(<<"u">>))}
    \cup {Part(cmd, <<"x">>, None, None, None, None) :
        cmd \in {CmdCAP, Cmd001, CmdRECONNECT}}

\* the well-formed lines, in their parts
ServerMessages ==
    {[tags |-> t, sender |-> s, part |-> p] :
        t \in TagBlocks, s \in Senders, p \in CommandParts}

\* parameters that do not have the form the command's pattern asks for: no
\* '#', no body, a channel that is no word; a mode that is not +o or -o, no
\* nickname
MalformedParts ==
    {Part(cmd, p, None, None, None, None) :
        cmd \in {CmdPRIVMSG, CmdHOSTTARGET, CmdNOTICE, CmdUSERNOTICE},
        p \in {<<"c", " ", ":", "m">>, <<"#", "c">>, <<"*", " ", ":", "m">>}}
    \cup {Part(CmdMODE, p, None, None, None, None) :
        p \in {<<"#", "c", " ", "+", "v", " ", "u">>, <<"#", "c", " ", "+", "o">>,
               <<"c", " ", "+", "o", " ", "u">>}}

\* the lines with such parameters, in their parts
MalformedMessages ==
    {[tags |-> t, sender |-> s, part |-> p] :
        t \in TagBlocks, s \in Senders, p \in MalformedParts}

\* the reconnect notification: the sender and the command alone, then with
\* a space after the command, then with a parameter
ReconnectLines ==
    {<<":">> \o s.text \o <<" ">> \o CmdRECONNECT \o rest :
        s \in Senders, rest \in {<<>>, <<" ">>, <<" ", "x">>}}

\* entries joined by ';', each entry key=value
RECURSIVE RenderTags(_)
RenderTags(entries) ==
    IF entries = <<>> THEN <<>>
    ELSE Head(entries)[1] \o <<"=">> \o Head(entries)[2]
         \o (IF Len(entries) = 1 THEN <<>> ELSE <<";">> \o RenderTags(Tail(entries)))

\* the line the server sends for the parts
Render(sm) ==
    (IF sm.tags = <<>> THEN <<>> ELSE <<"@">> \o RenderTags(sm.tags) \o <<" ">>)
        \o <<":">> \o sm.sender.text \o <<" ">> \o sm.part.cmd \o <<" ">>
        \o sm.part.params

\* the events the caller hands to the outbound queue: join_channel('c'),
\* send_message('m', 'c'), send_whisper('u', 'h')
OutCommands ==
    {Event(Some(<<"c">>), CmdJOIN, <<>>),
     Event(Some(<<"c">>), CmdPRIVMSG, <<"m">>),
     Event(None, CmdPRIVMSG, <<"/", "w", " ", "u", " ", "h">>)}

\* lines 523 to 572 on the line
ParseLine ==
    /\ line # <<>>
    /\ parsed = None
    /\ parsed' = Some(ParseMessage(line))
    /\ UNCHANGED <<subscribers, inbound_worker_thread, outbound_worker_thread,
                   is_running, socket, inbound_event_queue,
                   outbound_event_queue, inbound_lock, outbound_lock,
                   socket_lock, last_time_sent, now, sockState, wire, delivered,
                   pc, messages, event, cbIdx, force_stop, worker, stopCaller,
                   outEvent, result, exc, events, appended, handshake,
                   startResult, unreturned, notified, subsTouched, stayed,
                   subCall, enqueued, sentAt, stopCtx, stopDone, closedBy,
                   shutdowns, closes, stream, readPos, truncated_response,
                   lines_out, decoder, line, outgoing, dumped, event_queue,
                   legacy_result, legacy_pc, legacy_events, legacy_created,
                   legacy_returned>>

\* line 456: event.dumps()
DumpCommand ==
    /\ outgoing # None
    /\ dumped = None
    /\ dumped' = Some(dumps(outgoing[1]))
    /\ UNCHANGED <<subscribers, inbound_worker_thread, outbound_worker_thread,
                   is_running, socket, inbound_event_queue,
                   outbound_event_queue, inbound_lock, outbound_lock,
                   socket_lock, last_time_sent, now, sockState, wire, delivered,
                   pc, messages, event, cbIdx, force_stop, worker, stopCaller,
                   outEvent, result, exc, events, appended, handshake,
                   startResult, unreturned, notified, subsTouched, stayed,
                   subCall, enqueued, sentAt, stopCtx, stopDone, closedBy,
                   shutdowns, closes, stream, readPos, truncated_response,
                   lines_out, decoder, line, parsed, outgoing, event_queue,
                   legacy_result, legacy_pc, legacy_events, legacy_created,
                   legacy_returned>>

InitCodec ==
    /\ ObserverInit
    /\ DecoderIdle
    /\ TwitchChatObserverInit
    /\ line \in {Render(sm) : sm \in ServerMessages \cup MalformedMessages}
                 \cup ReconnectLines
    /\ parsed = None
    /\ outgoing \in {Some(e) : e \in OutCommands}
    /\ dumped = None

NextCodec == ParseLine \/ DumpCommand

SpecCodec == InitCodec /\ [][NextCodec]_vars

(***************************************************************************)
(* The earlier class TwitchChatObserver (src/twitchobserver.py): one       *)
(* worker thread that appends events to _event_queue, and get_events()     *)
(* called from the caller's thread.  Both wrap their access to the queue   *)
(* in "with threading.Lock():", which creates a new lock object each time  *)
(* it is executed: the lock is never held by anybody else, acquiring it    *)
(* never waits, and the statements inside interleave freely.  Events are   *)
(* numbered in the order the worker creates them.                          *)
(***************************************************************************)
\* start(): the worker thread is created and started; it connects and goes
\* to its receive loop (one worker is modelled)
LegacyStart ==
    /\ legacy_pc.worker = "unstarted"
    /\ legacy_pc' = [legacy_pc EXCEPT !.worker = "recv"]
    /\ UNCHANGED <<subscribers, inbound_worker_thread, outbound_worker_thread,
                   is_running, socket, inbound_event_queue,
                   outbound_event_queue, inbound_lock, outbound_lock,
                   socket_lock, last_time_sent, now, sockState, wire, delivered,
                   pc, messages, event, cbIdx, force_stop, worker, stopCaller,
                   outEvent, result, exc, events, appended, handshake,
                   startResult, unreturned, notified, subsTouched, stayed,
                   subCall, enqueued, sentAt, stopCtx, stopDone, closedBy,
                   shutdowns, closes, stream, readPos, truncated_response,
                   lines_out, decoder, line, parsed, outgoing, dumped,
                   event_queue, legacy_result, legacy_events, legacy_created,
                   legacy_returned>>

\* worker(), lines 92-99: one recv() whose response holds n lines matching
\* response_pattern; with none the worker sleeps and receives again
LegacyRecv(n) ==
    /\ legacy_pc.worker = "recv"
    /\ legacy_created + n <= MaxEvents
    /\ legacy_events' = [i \in 1..n |-> legacy_created + i]
    /\ legacy_created' = legacy_created + n
    /\ legacy_pc' = [legacy_pc EXCEPT !.worker = IF n = 0 THEN "recv" ELSE "notify"]
    /\ UNCHANGED <<subscribers, inbound_worker_thread, outbound_worker_thread,
                   is_running, socket, inbound_event_queue,
                   outbound_event_queue, inbound_lock, outbound_lock,
                   socket_lock, last_time_sent, now, sockState, wire, delivered,
                   pc, messages, event, cbIdx, force_stop, worker, stopCaller,
                   outEvent, result, exc, events, appended, handshake,
                   startResult, unreturned, notified, subsTouched, stayed,
                   subCall, enqueued, sentAt, stopCtx, stopDone, closedBy,
                   shutdowns, closes, stream, readPos, truncated_response,
                   lines_out, decoder, line, parsed, outgoing, dumped,
                   event_queue, legacy_result, legacy_returned>>

\* worker(), lines 100-113: the event of the next line is built and handed to
\* the subscribers
LegacyNotify ==
    /\ legacy_pc.worker = "notify"
    /\ legacy_pc' = [legacy_pc EXCEPT !.worker = "append"]
    /\ UNCHANGED <<subscribers, inbound_worker_thread, outbound_worker_thread,
                   is_running, socket, inbound_event_queue,
                   outbound_event_queue, inbound_lock, outbound_lock,
                   socket_lock, last_time_sent, now, sockState, wire, delivered,
                   pc, messages, event, cbIdx, force_stop, worker, stopCaller,
                   outEvent, result, exc, events, appended, handshake,
                   startResult, unreturned, notified, subsTouched, stayed,
                   subCall, enqueued, sentAt, stopCtx, stopDone, closedBy,
                   shutdowns, closes, stream, readPos, truncated_response,
                   lines_out, decoder, line, parsed, outgoing, dumped,
                   event_queue, legacy_result, legacy_events, legacy_created,
                   legacy_returned>>

\* worker(), lines 115-118: under a lock of its own the event is appended to
\* the list _event_queue refers to now; after the last event of the response
\* the worker sleeps and receives again
LegacyAppend ==
    /\ legacy_pc.worker = "append"
    /\ event_queue' = Append(event_queue, Head(legacy_events))
    /\ legacy_events' = Tail(legacy_events)
    /\ legacy_pc' = [legacy_pc EXCEPT
                        !.worker = IF Tail(legacy_events) = <<>> THEN "recv" ELSE "notify"]
    /\ UNCHANGED <<subscribers, inbound_worker_thread, outbound_worker_thread,
                   is_running, socket, inbound_event_queue,
                   outbound_event_queue, inbound_lock, outbound_lock,
                   socket_lock, last_time_sent, now, sockState, wire, delivered,
                   pc, messages, event, cbIdx, force_stop, worker, stopCaller,
                   outEvent, result, exc, events, appended, handshake,
                   startResult, unreturned, notified, subsTouched, stayed,
                   subCall, enqueued, sentAt, stopCtx, stopDone, closedBy,
                   shutdowns, closes, stream, readPos, truncated_response,
                   lines_out, decoder, line, parsed, outgoing, dumped,
                   legacy_result, legacy_created, legacy_returned>>

\* get_events(), lines 71-72: under a lock of its own, result is a copy of
\* the queue
LegacyGetEventsCopy ==
    /\ legacy_pc.caller = "idle"
    /\ legacy_result' = event_queue
    /\ legacy_pc' = [legacy_pc EXCEPT !.caller = "clear"]
    /\ UNCHANGED <<subscribers, inbound_worker_thread, outbound_worker_thread,
                   is_running, socket, inbound_event_queue,
                   outbound_event_queue, inbound_lock, outbound_lock,
                   socket_lock, last_time_sent, now, sockState, wire, delivered,
                   pc, messages, event, cbIdx, force_stop, worker, stopCaller,
                   outEvent, result, exc, events, appended, handshake,
                   startResult, unreturned, notified, subsTouched, stayed,
                   subCall, enqueued, sentAt, stopCtx, stopDone, closedBy,
                   shutdowns, closes, stream, readPos, truncated_response,
                   lines_out, decoder, line, parsed, outgoing, dumped,
                   event_queue, legacy_events, legacy_created, legacy_returned>>

\* get_events(), lines 73-75: _event_queue becomes a new empty list and the
\* copy is returned
LegacyGetEventsClear ==
    /\ legacy_pc.caller = "clear"
    /\ event_queue' = <<>>
    /\ legacy_returned' = legacy_returned \o legacy_result
    /\ legacy_result' = <<>>
    /\ legacy_pc' = [legacy_pc EXCEPT !.caller = "idle"]
    /\ UNCHANGED <<subscribers, inbound_worker_thread, outbound_worker_thread,
                   is_running, socket, inbound_event_queue,
                   outbound_event_queue, inbound_lock, outbound_lock,
                   socket_lock, last_time_sent, now, sockState, wire, delivered,
                   pc, messages, event, cbIdx, force_stop, worker, stopCaller,
                   outEvent, result, exc, events, appended, handshake,
                   startResult, unreturned, notified, subsTouched, stayed,
                   subCall, enqueued, sentAt, stopCtx, stopDone, closedBy,
                   shutdowns, closes, stream, readPos, truncated_response,
                   lines_out, decoder, line, parsed, outgoing, dumped,
                   legacy_events, legacy_created>>

LegacyWorker ==
    \/ \E n \in 0..MaxBatch : LegacyRecv(n)
    \/ LegacyNotify
    \/ LegacyAppend

LegacyGetEvents == LegacyGetEventsCopy \/ LegacyGetEventsClear

NextLegacy == LegacyStart \/ LegacyWorker \/ LegacyGetEvents

\* a TwitchChatObserver that is started and polled with get_events(); the
\* Observer of the newer module is not used
InitLegacy ==
    /\ TwitchChatObserverInit
    /\ ObserverInit
    /\ DecoderIdle
    /\ CodecIdle

SpecLegacy == InitLegacy /\ [][NextLegacy]_vars

(***************************************************************************)
(* The environment: the lines the server sends, the callbacks and the      *)
(* commands of the caller.                                                 *)
(***************************************************************************)
JoinLine == <<":", "n", "!", "n", "@", "n", ".", "t", "m", "i", ".", "t", "w", "i", "t", "c", "h", ".", "t", "v", " ", "J", "O", "I", "N", " ", "#", "c">>

PrivmsgLine == <<":", "n", "!", "n", "@", "n", ".", "t", "m", "i", ".", "t", "w", "i", "t", "c", "h", ".", "t", "v", " ", "P", "R", "I", "V", "M", "S", "G", " ", "#", "c", " ", ":", "m">>

\* a line that differs from the ping literal in its last character
NearPingLine == <<"P", "I", "N", "G", " ", ":", "t", "m", "i", ".", "t", "w", "i", "t", "c", "h", ".", "t", "w">>

\* a line whose tag block holds an entry without '='
BadTagLine == <<"@", "a", " ">> \o JoinLine

ServerLines == {PingLiteral, AuthFailLiteral, JoinLine, PrivmsgLine, NearPingLine,
                BadTagLine}

\* what one recv() yields once split into lines: up to MaxBatch lines
Batches == UNION {[1..n -> ServerLines] : n \in 0..MaxBatch}

\* the callbacks: cb1 raises when it is called, cb2 returns
Callbacks == {"cb1", "cb2"}

Raises(cb) == cb = "cb1"

\* join_channel('c') and send_message('m', 'c')
JoinCmd == Event(Some(<<"c">>), CmdJOIN, <<>>)

MsgCmd == Event(Some(<<"c">>), CmdPRIVMSG, <<"m">>)

\* the i-th command the caller enqueues
Script(i) == IF i % 2 = 1 THEN JoinCmd ELSE MsgCmd

Range(s) == {s[i] : i \in 1..Len(s)}

\* a remove that takes the head of the list, whatever x is
RemoveHead(s, x) == Tail(s)

\* list.remove(x): the list without the first occurrence of x
RemoveFirst(s, x) ==
    LET i == CHOOSE k \in 1..Len(s) : s[k] = x /\ \A j \in 1..(k - 1) : s[j] # x
    IN  SubSeq(s, 1, i - 1) \o SubSeq(s, i + 1, Len(s))

(***************************************************************************)
(* Exceptions.  An exception that leaves _process_server_messages or       *)
(* stop() in the caller's thread ends the caller's call; in the inbound    *)
(* worker it is caught by the loop when it is an OSError and ends the      *)
(* thread otherwise; exc records what ended a worker.                      *)
(***************************************************************************)
AuthError == "RuntimeError: Login authentication failed"

JoinError == "RuntimeError: cannot join current thread"

PsmPcs == {"psm", "psm_pong", "psm_notify", "psm_append"}

StopPcs == {"stop_wait", "stop_in", "stop_in_take", "stop_in_join", "stop_out",
            "stop_out_take", "stop_out_join", "stop_sock", "stop_close",
            "stop_ret"}

\* is the caller inside start()
InStart(t) ==
    t = "main" /\ (pc[t] \in PsmPcs \cup {"start_recv", "start_in", "start_out"}
                   \/ stopCaller[t] = "psm")

\* thread t leaves _process_server_messages and stop(): their locals die
DropFrames(t) ==
    /\ messages' = [messages EXCEPT ![t] = <<>>]
    /\ event' = [event EXCEPT ![t] = None]
    /\ cbIdx' = [cbIdx EXCEPT ![t] = 0]
    /\ force_stop' = [force_stop EXCEPT ![t] = FALSE]
    /\ worker' = [worker EXCEPT ![t] = "None"]
    /\ stopCaller' = [stopCaller EXCEPT ![t] = "None"]
    /\ notified' = [notified EXCEPT ![t] = <<>>]
    /\ subsTouched' = [subsTouched EXCEPT ![t] = FALSE]
    /\ stayed' = [stayed EXCEPT ![t] = {}]

\* exception e propagates out of thread t's current call
Raise(t, e) ==
    /\ pc' = [pc EXCEPT ![t] = IF t = "main" THEN "idle"
                               ELSE IF e = "OSError" THEN "in_loop"
                               ELSE "crashed"]
    /\ exc' = [exc EXCEPT ![t] = IF t = "main" \/ e = "OSError" THEN @ ELSE e]
    /\ startResult' = IF InStart(t) THEN e ELSE startResult
    /\ handshake' = IF InStart(t) THEN <<>> ELSE handshake
    /\ stopCtx' = IF t = "main" /\ stopCaller[t] = "api" THEN NoStop ELSE stopCtx
    /\ DropFrames(t)

\* a line 513 that looks at the first word only
StartsWithPing(message) == LitAt(message, 1, <<"P", "I", "N", "G">>)

\* line 513
IsPing(message) == message = PingLiteral

(***************************************************************************)
(* Scheduling.                                                             *)
(***************************************************************************)
\* A thread that is at a step that neither waits (for a lock, a
\* join, the outbound queue, the socket) nor runs a callback takes it before
\* any other thread moves: the threads interleave at the waits, at the
\* callbacks and at the sleeps of the loops.
Urgent(t) ==
    \/ pc[t] \in {"se_append", "start_out", "stop_in", "stop_in_take", "stop_out",
                  "stop_out_take", "stop_sock", "stop_ret", "out_check",
                  "out_stamp"}
    \/ t \in Runners /\ pc[t] = "psm"
          /\ (messages[t] = <<>> \/ ~IsPing(Head(messages[t])))
    \/ t \in Runners /\ pc[t] = "psm_notify" /\ cbIdx[t] >= Len(subscribers)
    \/ t \in Runners /\ pc[t] \in {"stop_wait", "stop_in_join", "stop_out_join"}
          /\ force_stop[t]

MayRun(t) == \A u \in Threads \ {t} : ~Urgent(u)

(***************************************************************************)
(* The caller's API: subscribe, unsubscribe, get_events, _send_events.     *)
(***************************************************************************)
\* subscribe(callback), lines 105 to 111; the call is remembered as "fresh"
\* when the callback was not registered
Subscribe(cb) ==
    /\ MayRun("main")
    /\ pc["main"] = "idle"
    /\ Len(subscribers) < MaxSubscribers
    /\ subscribers' = Append(subscribers, cb)
    /\ subsTouched' = [t \in Runners |-> pc[t] \in {"psm_notify", "psm_append"}]
    /\ subCall' = IF cb \in Range(subscribers) THEN None
                  ELSE Some([kind |-> "fresh", cb |-> cb, before |-> subscribers])
    /\ UNCHANGED <<inbound_worker_thread, outbound_worker_thread, is_running,
                   socket, inbound_event_queue, outbound_event_queue,
                   inbound_lock, outbound_lock, socket_lock, last_time_sent,
                   now, sockState, wire, delivered, pc, messages, event, cbIdx,
                   force_stop, worker, stopCaller, outEvent, result, exc,
                   events, appended, handshake, startResult, unreturned,
                   notified, stayed, enqueued, sentAt, stopCtx, stopDone,
                   closedBy, shutdowns, closes, stream, readPos,
                   truncated_response, lines_out, decoder, line, parsed,
                   outgoing, dumped, event_queue, legacy_result, legacy_pc,
                   legacy_events, legacy_created, legacy_returned>>

\* what is remembered of unsubscribe(cb): "noop" when cb was not
\* registered, "undone" when it comes right after the subscribe(cb) that
\* registered cb
Unsubscribed(cb) ==
    IF cb \notin Range(subscribers)
        THEN Some([kind |-> "noop", cb |-> cb, before |-> subscribers])
    ELSE IF subCall # None /\ subCall[1].kind = "fresh" /\ subCall[1].cb = cb
        THEN Some([kind |-> "undone", cb |-> cb, before |-> subCall[1].before])
    ELSE None

\* unsubscribe(callback), lines 113 to 120
Unsubscribe(cb) ==
    /\ MayRun("main")
    /\ pc["main"] = "idle"
    /\ subCall' = Unsubscribed(cb)
    /\ IF cb \in Range(subscribers)
       THEN /\ subscribers' = RemoveFirst(subscribers, cb)
            /\ subsTouched' = [t \in Runners |-> pc[t] \in {"psm_notify", "psm_append"}]
            /\ stayed' = [t \in Runners |-> stayed[t] \ {cb}]
       ELSE UNCHANGED <<subscribers, subsTouched, stayed>>
    /\ UNCHANGED <<inbound_worker_thread, outbound_worker_thread, is_running,
                   socket, inbound_event_queue, outbound_event_queue,
                   inbound_lock, outbound_lock, socket_lock, last_time_sent,
                   now, sockState, wire, delivered, pc, messages, event, cbIdx,
                   force_stop, worker, stopCaller, outEvent, result, exc,
                   events, appended, handshake, startResult, unreturned,
                   notified, enqueued, sentAt, stopCtx, stopDone, closedBy,
                   shutdowns, closes, stream, readPos, truncated_response,
                   lines_out, decoder, line, parsed, outgoing, dumped,
                   event_queue, legacy_result, legacy_pc, legacy_events,
                   legacy_created, legacy_returned>>

\* a get_events() that copies the queue without holding the inbound lock
GetEventsNoLock ==
    /\ MayRun("main")
    /\ pc["main"] = "idle"
    /\ result' = inbound_event_queue
    /\ pc' = [pc EXCEPT !["main"] = "ge_clear"]
    /\ subCall' = None
    /\ UNCHANGED <<subscribers, inbound_worker_thread, outbound_worker_thread,
                   is_running, socket, inbound_event_queue,
                   outbound_event_queue, inbound_lock, outbound_lock,
                   socket_lock, last_time_sent, now, sockState, wire, delivered,
                   messages, event, cbIdx, force_stop, worker, stopCaller,
                   outEvent, exc, events, appended, handshake, startResult,
                   unreturned, notified, subsTouched, stayed, enqueued, sentAt,
                   stopCtx, stopDone, closedBy, shutdowns, closes, stream,
                   readPos, truncated_response, lines_out, decoder, line,
                   parsed, outgoing, dumped, event_queue, legacy_result,
                   legacy_pc, legacy_events, legacy_created, legacy_returned>>

\* get_events(), lines 143 and 144: take the inbound lock, copy the queue
GetEventsSnapshot ==
    /\ MayRun("main")
    /\ pc["main"] = "idle"
    /\ inbound_lock = "None"
    /\ inbound_lock' = "main"
    /\ result' = inbound_event_queue
    /\ pc' = [pc EXCEPT !["main"] = "ge_clear"]
    /\ subCall' = None
    /\ UNCHANGED <<subscribers, inbound_worker_thread, outbound_worker_thread,
                   is_running, socket, inbound_event_queue,
                   outbound_event_queue, outbound_lock, socket_lock,
                   last_time_sent, now, sockState, wire, delivered, messages,
                   event, cbIdx, force_stop, worker, stopCaller, outEvent, exc,
                   events, appended, handshake, startResult, unreturned,
                   notified, subsTouched, stayed, enqueued, sentAt, stopCtx,
                   stopDone, closedBy, shutdowns, closes, stream, readPos,
                   truncated_response, lines_out, decoder, line, parsed,
                   outgoing, dumped, event_queue, legacy_result, legacy_pc,
                   legacy_events, legacy_created, legacy_returned>>

\* get_events(), lines 145 to 147: replace the queue, release, return result
GetEventsClear ==
    /\ MayRun("main")
    /\ pc["main"] = "ge_clear"
    /\ inbound_event_queue' = <<>>
    /\ inbound_lock' = "None"
    /\ unreturned' = SubSeq(unreturned, Len(result) + 1, Len(unreturned))
    /\ result' = <<>>
    /\ pc' = [pc EXCEPT !["main"] = "idle"]
    /\ UNCHANGED <<subscribers, inbound_worker_thread, outbound_worker_thread,
                   is_running, socket, outbound_event_queue, outbound_lock,
                   socket_lock, last_time_sent, now, sockState, wire, delivered,
                   messages, event, cbIdx, force_stop, worker, stopCaller,
                   outEvent, exc, events, appended, handshake, startResult,
                   notified, subsTouched, stayed, subCall, enqueued, sentAt,
                   stopCtx, stopDone, closedBy, shutdowns, closes, stream,
                   readPos, truncated_response, lines_out, decoder, line,
                   parsed, outgoing, dumped, event_queue, legacy_result,
                   legacy_pc, legacy_events, legacy_created, legacy_returned>>

\* a value that is no Event, and the test of line 154
NotAnEvent == [type |-> "str"]

IsEvent(value) == "command" \in DOMAIN value

\* the argument lists of _send_events: one to MaxArgs values
ArgLists == UNION {[1..n -> {JoinCmd, MsgCmd, NotAnEvent}] : n \in 1..MaxArgs}

\* _send_events(*args), line 152: take the outbound lock
SendEventsLock(args) ==
    /\ MayRun("main")
    /\ pc["main"] = "idle"
    /\ enqueued + Len(SelectSeq(args, IsEvent)) <= MaxCmds
    /\ outbound_lock = "None"
    /\ outbound_lock' = "main"
    /\ events' = args
    /\ appended' = 0
    /\ pc' = [pc EXCEPT !["main"] = "se_append"]
    /\ subCall' = None
    /\ UNCHANGED <<subscribers, inbound_worker_thread, outbound_worker_thread,
                   is_running, socket, inbound_event_queue,
                   outbound_event_queue, inbound_lock, socket_lock,
                   last_time_sent, now, sockState, wire, delivered, messages,
                   event, cbIdx, force_stop, worker, stopCaller, outEvent,
                   result, exc, handshake, startResult, unreturned, notified,
                   subsTouched, stayed, enqueued, sentAt, stopCtx, stopDone,
                   closedBy, shutdowns, closes, stream, readPos,
                   truncated_response, lines_out, decoder, line, parsed,
                   outgoing, dumped, event_queue, legacy_result, legacy_pc,
                   legacy_events, legacy_created, legacy_returned>>

\* _send_events, lines 153 to 157: one pass of the loop over an Event; the
\* lock is released after the last one
SendEventsAppend ==
    /\ MayRun("main")
    /\ pc["main"] = "se_append"
    /\ IsEvent(Head(events))
    /\ outbound_event_queue' = Append(outbound_event_queue, Head(events))
    /\ enqueued' = enqueued + 1
    /\ events' = Tail(events)
    /\ IF Len(events) = 1
       THEN /\ outbound_lock' = "None"
            /\ appended' = 0
            /\ pc' = [pc EXCEPT !["main"] = "idle"]
       ELSE /\ appended' = appended + 1
            /\ UNCHANGED <<outbound_lock, pc>>
    /\ UNCHANGED <<subscribers, inbound_worker_thread, outbound_worker_thread,
                   is_running, socket, inbound_event_queue, inbound_lock,
                   socket_lock, last_time_sent, now, sockState, wire, delivered,
                   messages, event, cbIdx, force_stop, worker, stopCaller,
                   outEvent, result, exc, handshake, startResult, unreturned,
                   notified, subsTouched, stayed, subCall, sentAt, stopCtx,
                   stopDone, closedBy, shutdowns, closes, stream, readPos,
                   truncated_response, lines_out, decoder, line, parsed,
                   outgoing, dumped, event_queue, legacy_result, legacy_pc,
                   legacy_events, legacy_created, legacy_returned>>

\* _send_events, lines 154 and 155: the value is no Event, BadEvent leaves
\* the with block, which releases the lock; what was appended stays
SendEventsRaise ==
    /\ MayRun("main")
    /\ pc["main"] = "se_append"
    /\ ~IsEvent(Head(events))
    /\ outbound_lock' = "None"
    /\ events' = <<>>
    /\ appended' = 0
    /\ pc' = [pc EXCEPT !["main"] = "idle"]
    /\ UNCHANGED <<subscribers, inbound_worker_thread, outbound_worker_thread,
                   is_running, socket, inbound_event_queue,
                   outbound_event_queue, inbound_lock, socket_lock,
                   last_time_sent, now, sockState, wire, delivered, messages,
                   event, cbIdx, force_stop, worker, stopCaller, outEvent,
                   result, exc, handshake, startResult, unreturned, notified,
                   subsTouched, stayed, subCall, enqueued, sentAt, stopCtx,
                   stopDone, closedBy, shutdowns, closes, stream, readPos,
                   truncated_response, lines_out, decoder, line, parsed,
                   outgoing, dumped, event_queue, legacy_result, legacy_pc,
                   legacy_events, legacy_created, legacy_returned>>

(***************************************************************************)
(* start(), lines 378 to 469.                                              *)
(***************************************************************************)
\* what start() writes first: the password 'p', the nickname 'n' and the
\* three capability requests
PassLine == <<"P", "A", "S", "S", " ", "p", "\r", "\n">>

NickLine == <<"N", "I", "C", "K", " ", "n", "\r", "\n">>

CapMembership == <<"C", "A", "P", " ", "R", "E", "Q", " ", ":", "t", "w", "i", "t", "c", "h", ".", "t", "v", "/", "m", "e", "m", "b", "e", "r", "s", "h", "i", "p", "\r", "\n">>

CapCommands == <<"C", "A", "P", " ", "R", "E", "Q", " ", ":", "t", "w", "i", "t", "c", "h", ".", "t", "v", "/", "c", "o", "m", "m", "a", "n", "d", "s", "\r", "\n">>

CapTags == <<"C", "A", "P", " ", "R", "E", "Q", " ", ":", "t", "w", "i", "t", "c", "h", ".", "t", "v", "/", "t", "a", "g", "s", "\r", "\n">>

LoginLines == <<PassLine, NickLine, CapMembership, CapCommands, CapTags>>

\* lines 388 to 397: create and connect the socket, log in
StartConnect ==
    /\ MayRun("main")
    /\ pc["main"] = "idle"
    /\ sockState = "unopened"
    /\ socket' = "sock"
    /\ sockState' = "open"
    /\ wire' = wire \o LoginLines
    /\ pc' = [pc EXCEPT !["main"] = "start_recv"]
    /\ subCall' = None
    /\ UNCHANGED <<subscribers, inbound_worker_thread, outbound_worker_thread,
                   is_running, inbound_event_queue, outbound_event_queue,
                   inbound_lock, outbound_lock, socket_lock, last_time_sent,
                   now, delivered, messages, event, cbIdx, force_stop, worker,
                   stopCaller, outEvent, result, exc, events, appended,
                   handshake, startResult, unreturned, notified, subsTouched,
                   stayed, enqueued, sentAt, stopCtx, stopDone, closedBy,
                   shutdowns, closes, stream, readPos, truncated_response,
                   lines_out, decoder, line, parsed, outgoing, dumped,
                   event_queue, legacy_result, legacy_pc, legacy_events,
                   legacy_created, legacy_returned>>

\* threading.Thread(target=inbound_worker), line 465: a new thread
NewInbound == IF pc["in"] = "unstarted" THEN "in" ELSE "in2"

\* threading.Thread(target=outbound_worker), line 468: a new thread
NewOutbound == IF pc["out"] = "unstarted" THEN "out" ELSE "out2"

\* a start() that sets the running flag again
StartAgainSetsFlag ==
    /\ MayRun("main")
    /\ pc["main"] = "idle"
    /\ sockState # "unopened"
    /\ pc[NewInbound] = "unstarted"
    /\ pc[NewOutbound] = "unstarted"
    /\ is_running' = TRUE
    /\ socket' = "sock"
    /\ sockState' = "open"
    /\ wire' = wire \o LoginLines
    /\ pc' = [pc EXCEPT !["main"] = "start_recv"]
    /\ subCall' = None
    /\ UNCHANGED <<subscribers, inbound_worker_thread, outbound_worker_thread,
                   inbound_event_queue, outbound_event_queue, inbound_lock,
                   outbound_lock, socket_lock, last_time_sent, now, delivered,
                   messages, event, cbIdx, force_stop, worker, stopCaller,
                   outEvent, result, exc, events, appended, handshake,
                   startResult, unreturned, notified, subsTouched, stayed,
                   enqueued, sentAt, stopCtx, stopDone, closedBy, shutdowns,
                   closes, stream, readPos, truncated_response, lines_out,
                   decoder, line, parsed, outgoing, dumped, event_queue,
                   legacy_result, legacy_pc, legacy_events, legacy_created,
                   legacy_returned>>

\* lines 388 to 397, start() being called again on the same observer: a new
\* socket replaces the one of the field; nothing else is reset
StartAgain ==
    /\ MayRun("main")
    /\ pc["main"] = "idle"
    /\ sockState # "unopened"
    /\ pc[NewInbound] = "unstarted"
    /\ pc[NewOutbound] = "unstarted"
    /\ socket' = "sock"
    /\ sockState' = "open"
    /\ wire' = wire \o LoginLines
    /\ pc' = [pc EXCEPT !["main"] = "start_recv"]
    /\ subCall' = None
    /\ UNCHANGED <<subscribers, inbound_worker_thread, outbound_worker_thread,
                   is_running, inbound_event_queue, outbound_event_queue,
                   inbound_lock, outbound_lock, socket_lock, last_time_sent,
                   now, delivered, messages, event, cbIdx, force_stop, worker,
                   stopCaller, outEvent, result, exc, events, appended,
                   handshake, startResult, unreturned, notified, subsTouched,
                   stayed, enqueued, sentAt, stopCtx, stopDone, closedBy,
                   shutdowns, closes, stream, readPos, truncated_response,
                   lines_out, decoder, line, parsed, outgoing, dumped,
                   event_queue, legacy_result, legacy_pc, legacy_events,
                   legacy_created, legacy_returned>>

\* lines 399 to 404: read the handshake response and hand it to
\* _process_server_messages in the caller's thread
StartRecv ==
    /\ MayRun("main")
    /\ pc["main"] = "start_recv"
    /\ \E b \in Batches :
        /\ delivered + Len(b) <= MaxLines
        /\ delivered' = delivered + Len(b)
        /\ handshake' = b
        /\ messages' = [messages EXCEPT !["main"] = b]
    /\ pc' = [pc EXCEPT !["main"] = "psm"]
    /\ UNCHANGED <<subscribers, inbound_worker_thread, outbound_worker_thread,
                   is_running, socket, inbound_event_queue,
                   outbound_event_queue, inbound_lock, outbound_lock,
                   socket_lock, last_time_sent, now, sockState, wire, event,
                   cbIdx, force_stop, worker, stopCaller, outEvent, result, exc,
                   events, appended, startResult, unreturned, notified,
                   subsTouched, stayed, subCall, enqueued, sentAt, stopCtx,
                   stopDone, closedBy, shutdowns, closes, stream, readPos,
                   truncated_response, lines_out, decoder, line, parsed,
                   outgoing, dumped, event_queue, legacy_result, legacy_pc,
                   legacy_events, legacy_created, legacy_returned>>

\* lines 465 and 466: create and start the inbound worker
StartInbound ==
    /\ MayRun("main")
    /\ pc["main"] = "start_in"
    /\ pc[NewInbound] = "unstarted"
    /\ inbound_worker_thread' = NewInbound
    /\ pc' = [pc EXCEPT !["main"] = "start_out", ![NewInbound] = "in_loop"]
    /\ UNCHANGED <<subscribers, outbound_worker_thread, is_running, socket,
                   inbound_event_queue, outbound_event_queue, inbound_lock,
                   outbound_lock, socket_lock, last_time_sent, now, sockState,
                   wire, delivered, messages, event, cbIdx, force_stop, worker,
                   stopCaller, outEvent, result, exc, events, appended,
                   handshake, startResult, unreturned, notified, subsTouched,
                   stayed, subCall, enqueued, sentAt, stopCtx, stopDone,
                   closedBy, shutdowns, closes, stream, readPos,
                   truncated_response, lines_out, decoder, line, parsed,
                   outgoing, dumped, event_queue, legacy_result, legacy_pc,
                   legacy_events, legacy_created, legacy_returned>>

\* lines 468 and 469: create and start the outbound worker; start() returns
StartOutbound ==
    /\ MayRun("main")
    /\ pc["main"] = "start_out"
    /\ pc[NewOutbound] = "unstarted"
    /\ outbound_worker_thread' = NewOutbound
    /\ pc' = [pc EXCEPT !["main"] = "idle", ![NewOutbound] = "out_loop"]
    /\ startResult' = "ok"
    /\ handshake' = <<>>
    /\ UNCHANGED <<subscribers, inbound_worker_thread, is_running, socket,
                   inbound_event_queue, outbound_event_queue, inbound_lock,
                   outbound_lock, socket_lock, last_time_sent, now, sockState,
                   wire, delivered, messages, event, cbIdx, force_stop, worker,
                   stopCaller, outEvent, result, exc, events, appended,
                   unreturned, notified, subsTouched, stayed, subCall, enqueued,
                   sentAt, stopCtx, stopDone, closedBy, shutdowns, closes,
                   stream, readPos, truncated_response, lines_out, decoder,
                   line, parsed, outgoing, dumped, event_queue, legacy_result,
                   legacy_pc, legacy_events, legacy_created, legacy_returned>>

(***************************************************************************)
(* _process_server_messages, lines 510 to 577, run by thread t: the        *)
(* caller inside start(), or the inbound worker.  messages[t] holds the    *)
(* lines of the response that are still to be processed.                    *)
(***************************************************************************)
\* the loop is over: back to start(), or to the worker's loop (line 426)
PsmReturn(t) ==
    /\ MayRun(t)
    /\ pc[t] = "psm"
    /\ messages[t] = <<>>
    /\ pc' = [pc EXCEPT ![t] = IF t = "main" THEN "start_in" ELSE "in_loop"]
    /\ UNCHANGED <<subscribers, inbound_worker_thread, outbound_worker_thread,
                   is_running, socket, inbound_event_queue,
                   outbound_event_queue, inbound_lock, outbound_lock,
                   socket_lock, last_time_sent, now, sockState, wire, delivered,
                   messages, event, cbIdx, force_stop, worker, stopCaller,
                   outEvent, result, exc, events, appended, handshake,
                   startResult, unreturned, notified, subsTouched, stayed,
                   subCall, enqueued, sentAt, stopCtx, stopDone, closedBy,
                   shutdowns, closes, stream, readPos, truncated_response,
                   lines_out, decoder, line, parsed, outgoing, dumped,
                   event_queue, legacy_result, legacy_pc, legacy_events,
                   legacy_created, legacy_returned>>

\* lines 525 to 573, r being what the line parses to: no match: next line; a
\* match: build the event and go on to notify the subscribers
Parsed(t, r) ==
    IF r.kind = "ValueError"
    THEN Raise(t, "ValueError")
    ELSE /\ pc' = [pc EXCEPT ![t] = IF r.kind = "event" THEN "psm_notify" ELSE "psm"]
         /\ messages' = [messages EXCEPT ![t] = IF r.kind = "event" THEN @ ELSE Tail(@)]
         /\ event' = [event EXCEPT ![t] = IF r.kind = "event" THEN Some(r.event) ELSE None]
         /\ cbIdx' = [cbIdx EXCEPT ![t] = 0]
         /\ notified' = [notified EXCEPT ![t] = <<>>]
         /\ subsTouched' = [subsTouched EXCEPT ![t] = FALSE]
         /\ stayed' = [stayed EXCEPT ![t] = IF r.kind = "event"
                                            THEN Range(subscribers) ELSE {}]
         /\ UNCHANGED <<exc, startResult, handshake, stopCtx, force_stop, worker,
                        stopCaller>>

Match(t) == Parsed(t, ParseMessage(Head(messages[t])))

\* lines 513 to 515: the ping literal: send the pong under the socket lock;
\* then the line goes through the match like any other
PsmPong(t) ==
    /\ MayRun(t)
    /\ pc[t] = "psm"
    /\ messages[t] # <<>>
    /\ IsPing(Head(messages[t]))
    /\ socket_lock = "None"
    /\ IF socket = "None"
       THEN /\ Raise(t, "AttributeError")
            /\ UNCHANGED wire
       ELSE /\ wire' = Append(wire, PongLiteral \o CRLF)
            /\ Match(t)
    /\ UNCHANGED <<subscribers, inbound_worker_thread, outbound_worker_thread,
                   is_running, socket, inbound_event_queue,
                   outbound_event_queue, inbound_lock, outbound_lock,
                   socket_lock, last_time_sent, now, sockState, delivered,
                   outEvent, result, events, appended, unreturned, subCall,
                   enqueued, sentAt, stopDone, closedBy, shutdowns, closes,
                   stream, readPos, truncated_response, lines_out, decoder,
                   line, parsed, outgoing, dumped, event_queue, legacy_result,
                   legacy_pc, legacy_events, legacy_created, legacy_returned>>

\* lines 518 and 519: the authentication failure line: call stop(True)
PsmAuthFail(t) ==
    /\ MayRun(t)
    /\ pc[t] = "psm"
    /\ messages[t] # <<>>
    /\ Head(messages[t]) = AuthFailLiteral
    /\ pc' = [pc EXCEPT ![t] = "stop_wait"]
    /\ force_stop' = [force_stop EXCEPT ![t] = TRUE]
    /\ stopCaller' = [stopCaller EXCEPT ![t] = "psm"]
    /\ UNCHANGED <<subscribers, inbound_worker_thread, outbound_worker_thread,
                   is_running, socket, inbound_event_queue,
                   outbound_event_queue, inbound_lock, outbound_lock,
                   socket_lock, last_time_sent, now, sockState, wire, delivered,
                   messages, event, cbIdx, worker, outEvent, result, exc,
                   events, appended, handshake, startResult, unreturned,
                   notified, subsTouched, stayed, subCall, enqueued, sentAt,
                   stopCtx, stopDone, closedBy, shutdowns, closes, stream,
                   readPos, truncated_response, lines_out, decoder, line,
                   parsed, outgoing, dumped, event_queue, legacy_result,
                   legacy_pc, legacy_events, legacy_created, legacy_returned>>

\* any other line
PsmMatch(t) ==
    /\ MayRun(t)
    /\ pc[t] = "psm"
    /\ messages[t] # <<>>
    /\ ~IsPing(Head(messages[t]))
    /\ Head(messages[t]) # AuthFailLiteral
    /\ Match(t)
    /\ UNCHANGED <<subscribers, inbound_worker_thread, outbound_worker_thread,
                   is_running, socket, inbound_event_queue,
                   outbound_event_queue, inbound_lock, outbound_lock,
                   socket_lock, last_time_sent, now, sockState, wire, delivered,
                   outEvent, result, events, appended, unreturned, subCall,
                   enqueued, sentAt, stopDone, closedBy, shutdowns, closes,
                   stream, readPos, truncated_response, lines_out, decoder,
                   line, parsed, outgoing, dumped, event_queue, legacy_result,
                   legacy_pc, legacy_events, legacy_created, legacy_returned>>

\* lines 124 to 135: the callback is called; what it raises is caught and
\* reported as a warning, and the loop goes on
Called(t, cb) ==
    /\ notified' = [notified EXCEPT ![t] = Append(@, cb)]
    /\ cbIdx' = [cbIdx EXCEPT ![t] = @ + 1]

\* _notify_subscribers, lines 123 to 135: one pass of the loop over the
\* subscriber list; the callback returns or raises
PsmNotify(t) ==
    /\ MayRun(t)
    /\ pc[t] = "psm_notify"
    /\ cbIdx[t] < Len(subscribers)
    /\ Called(t, subscribers[cbIdx[t] + 1])
    /\ UNCHANGED <<subscribers, inbound_worker_thread, outbound_worker_thread,
                   is_running, socket, inbound_event_queue,
                   outbound_event_queue, inbound_lock, outbound_lock,
                   socket_lock, last_time_sent, now, sockState, wire, delivered,
                   pc, messages, event, force_stop, worker, stopCaller,
                   outEvent, result, exc, events, appended, handshake,
                   startResult, unreturned, subsTouched, stayed, subCall,
                   enqueued, sentAt, stopCtx, stopDone, closedBy, shutdowns,
                   closes, stream, readPos, truncated_response, lines_out,
                   decoder, line, parsed, outgoing, dumped, event_queue,
                   legacy_result, legacy_pc, legacy_events, legacy_created,
                   legacy_returned>>

\* the loop over the subscribers is over
PsmNotifyDone(t) ==
    /\ MayRun(t)
    /\ pc[t] = "psm_notify"
    /\ cbIdx[t] >= Len(subscribers)
    /\ pc' = [pc EXCEPT ![t] = "psm_append"]
    /\ UNCHANGED <<subscribers, inbound_worker_thread, outbound_worker_thread,
                   is_running, socket, inbound_event_queue,
                   outbound_event_queue, inbound_lock, outbound_lock,
                   socket_lock, last_time_sent, now, sockState, wire, delivered,
                   messages, event, cbIdx, force_stop, worker, stopCaller,
                   outEvent, result, exc, events, appended, handshake,
                   startResult, unreturned, notified, subsTouched, stayed,
                   subCall, enqueued, sentAt, stopCtx, stopDone, closedBy,
                   shutdowns, closes, stream, readPos, truncated_response,
                   lines_out, decoder, line, parsed, outgoing, dumped,
                   event_queue, legacy_result, legacy_pc, legacy_events,
                   legacy_created, legacy_returned>>

\* lines 576 and 577: append the event under the inbound lock; next line
PsmAppend(t) ==
    /\ MayRun(t)
    /\ pc[t] = "psm_append"
    /\ inbound_lock = "None"
    /\ inbound_event_queue' = Append(inbound_event_queue, event[t][1])
    /\ unreturned' = Append(unreturned, event[t][1])
    /\ messages' = [messages EXCEPT ![t] = Tail(@)]
    /\ event' = [event EXCEPT ![t] = None]
    /\ cbIdx' = [cbIdx EXCEPT ![t] = 0]
    /\ notified' = [notified EXCEPT ![t] = <<>>]
    /\ subsTouched' = [subsTouched EXCEPT ![t] = FALSE]
    /\ stayed' = [stayed EXCEPT ![t] = {}]
    /\ pc' = [pc EXCEPT ![t] = "psm"]
    /\ UNCHANGED <<subscribers, inbound_worker_thread, outbound_worker_thread,
                   is_running, socket, outbound_event_queue, inbound_lock,
                   outbound_lock, socket_lock, last_time_sent, now, sockState,
                   wire, delivered, force_stop, worker, stopCaller, outEvent,
                   result, exc, events, appended, handshake, startResult,
                   subCall, enqueued, sentAt, stopCtx, stopDone, closedBy,
                   shutdowns, closes, stream, readPos, truncated_response,
                   lines_out, decoder, line, parsed, outgoing, dumped,
                   event_queue, legacy_result, legacy_pc, legacy_events,
                   legacy_created, legacy_returned>>

(***************************************************************************)
(* stop(force_stop), lines 471 to 508, run by thread t: the caller, or a   *)
(* thread that met the authentication failure line.                        *)
(***************************************************************************)
\* the caller calls stop(f)
StopCall(f) ==
    /\ MayRun("main")
    /\ pc["main"] = "idle"
    /\ pc' = [pc EXCEPT !["main"] = "stop_wait"]
    /\ force_stop' = [force_stop EXCEPT !["main"] = f]
    /\ stopCaller' = [stopCaller EXCEPT !["main"] = "api"]
    /\ stopCtx' = [called |-> TRUE, enq |-> enqueued,
                   queue |-> Len(outbound_event_queue),
                   open |-> socket # "None", late |-> stopDone,
                   popped |-> FALSE]
    /\ subCall' = None
    /\ UNCHANGED <<subscribers, inbound_worker_thread, outbound_worker_thread,
                   is_running, socket, inbound_event_queue,
                   outbound_event_queue, inbound_lock, outbound_lock,
                   socket_lock, last_time_sent, now, sockState, wire, delivered,
                   messages, event, cbIdx, worker, outEvent, result, exc,
                   events, appended, handshake, startResult, unreturned,
                   notified, subsTouched, stayed, enqueued, sentAt, stopDone,
                   closedBy, shutdowns, closes, stream, readPos,
                   truncated_response, lines_out, decoder, line, parsed,
                   outgoing, dumped, event_queue, legacy_result, legacy_pc,
                   legacy_events, legacy_created, legacy_returned>>

\* a line 481 that does not wait
LeavesAtOnce(t) == TRUE

\* a line 481 that waits whatever force_stop is
WaitsForDrain(t) == outbound_event_queue = <<>>

\* line 481: the loop that waits for the outbound queue is left
MayLeaveWait(t) == force_stop[t] \/ outbound_event_queue = <<>>

\* lines 481 to 488: leave the wait, clear the running flag
StopWait(t) ==
    /\ MayRun(t)
    /\ pc[t] = "stop_wait"
    /\ MayLeaveWait(t)
    /\ is_running' = FALSE
    /\ stopCtx' = IF t = "main"
                  THEN [stopCtx EXCEPT !.popped = \E w \in OutboundWorkers : outEvent[w] # None]
                  ELSE stopCtx
    /\ pc' = [pc EXCEPT ![t] = "stop_in"]
    /\ UNCHANGED <<subscribers, inbound_worker_thread, outbound_worker_thread,
                   socket, inbound_event_queue, outbound_event_queue,
                   inbound_lock, outbound_lock, socket_lock, last_time_sent,
                   now, sockState, wire, delivered, messages, event, cbIdx,
                   force_stop, worker, stopCaller, outEvent, result, exc,
                   events, appended, handshake, startResult, unreturned,
                   notified, subsTouched, stayed, subCall, enqueued, sentAt,
                   stopDone, closedBy, shutdowns, closes, stream, readPos,
                   truncated_response, lines_out, decoder, line, parsed,
                   outgoing, dumped, event_queue, legacy_result, legacy_pc,
                   legacy_events, legacy_created, legacy_returned>>

\* line 490
StopInboundCheck(t) ==
    /\ MayRun(t)
    /\ pc[t] = "stop_in"
    /\ pc' = [pc EXCEPT ![t] = IF inbound_worker_thread # "None"
                               THEN "stop_in_take" ELSE "stop_out"]
    /\ UNCHANGED <<subscribers, inbound_worker_thread, outbound_worker_thread,
                   is_running, socket, inbound_event_queue,
                   outbound_event_queue, inbound_lock, outbound_lock,
                   socket_lock, last_time_sent, now, sockState, wire, delivered,
                   messages, event, cbIdx, force_stop, worker, stopCaller,
                   outEvent, result, exc, events, appended, handshake,
                   startResult, unreturned, notified, subsTouched, stayed,
                   subCall, enqueued, sentAt, stopCtx, stopDone, closedBy,
                   shutdowns, closes, stream, readPos, truncated_response,
                   lines_out, decoder, line, parsed, outgoing, dumped,
                   event_queue, legacy_result, legacy_pc, legacy_events,
                   legacy_created, legacy_returned>>

\* lines 491 to 493
StopInboundTake(t) ==
    /\ MayRun(t)
    /\ pc[t] = "stop_in_take"
    /\ worker' = [worker EXCEPT ![t] = inbound_worker_thread]
    /\ inbound_worker_thread' = "None"
    /\ inbound_event_queue' = <<>>
    /\ unreturned' = <<>>
    /\ pc' = [pc EXCEPT ![t] = "stop_in_join"]
    /\ UNCHANGED <<subscribers, outbound_worker_thread, is_running, socket,
                   outbound_event_queue, inbound_lock, outbound_lock,
                   socket_lock, last_time_sent, now, sockState, wire, delivered,
                   messages, event, cbIdx, force_stop, stopCaller, outEvent,
                   result, exc, events, appended, handshake, startResult,
                   notified, subsTouched, stayed, subCall, enqueued, sentAt,
                   stopCtx, stopDone, closedBy, shutdowns, closes, stream,
                   readPos, truncated_response, lines_out, decoder, line,
                   parsed, outgoing, dumped, event_queue, legacy_result,
                   legacy_pc, legacy_events, legacy_created, legacy_returned>>

\* a join that always has timeout 0
JoinNeverWaits(t) == TRUE

\* worker.join(timeout) returns: at once with timeout 0, with no timeout
\* when the thread has ended
JoinReturns(t) == force_stop[t] \/ pc[worker[t]] \in {"done", "crashed"}

\* worker.join(timeout), lines 494 and 500, for the step to pc next
Join(t, next) ==
    /\ worker[t] \notin {"None", t} => JoinReturns(t)
    /\ IF worker[t] = "None"
       THEN Raise(t, "AttributeError")
       ELSE IF worker[t] = t
       THEN Raise(t, JoinError)
       ELSE /\ pc' = [pc EXCEPT ![t] = next]
            /\ UNCHANGED <<exc, startResult, handshake, stopCtx, messages, event,
                           cbIdx, force_stop, worker, stopCaller, notified, subsTouched, stayed>>

\* line 494
StopInboundJoin(t) ==
    /\ MayRun(t)
    /\ pc[t] = "stop_in_join"
    /\ Join(t, "stop_out")
    /\ UNCHANGED <<subscribers, inbound_worker_thread, outbound_worker_thread,
                   is_running, socket, inbound_event_queue,
                   outbound_event_queue, inbound_lock, outbound_lock,
                   socket_lock, last_time_sent, now, sockState, wire, delivered,
                   outEvent, result, events, appended, unreturned, subCall,
                   enqueued, sentAt, stopDone, closedBy, shutdowns, closes,
                   stream, readPos, truncated_response, lines_out, decoder,
                   line, parsed, outgoing, dumped, event_queue, legacy_result,
                   legacy_pc, legacy_events, legacy_created, legacy_returned>>

\* line 496
StopOutboundCheck(t) ==
    /\ MayRun(t)
    /\ pc[t] = "stop_out"
    /\ pc' = [pc EXCEPT ![t] = IF outbound_worker_thread # "None"
                               THEN "stop_out_take" ELSE "stop_sock"]
    /\ UNCHANGED <<subscribers, inbound_worker_thread, outbound_worker_thread,
                   is_running, socket, inbound_event_queue,
                   outbound_event_queue, inbound_lock, outbound_lock,
                   socket_lock, last_time_sent, now, sockState, wire, delivered,
                   messages, event, cbIdx, force_stop, worker, stopCaller,
                   outEvent, result, exc, events, appended, handshake,
                   startResult, unreturned, notified, subsTouched, stayed,
                   subCall, enqueued, sentAt, stopCtx, stopDone, closedBy,
                   shutdowns, closes, stream, readPos, truncated_response,
                   lines_out, decoder, line, parsed, outgoing, dumped,
                   event_queue, legacy_result, legacy_pc, legacy_events,
                   legacy_created, legacy_returned>>

\* lines 497 to 499
StopOutboundTake(t) ==
    /\ MayRun(t)
    /\ pc[t] = "stop_out_take"
    /\ worker' = [worker EXCEPT ![t] = outbound_worker_thread]
    /\ outbound_worker_thread' = "None"
    /\ outbound_event_queue' = <<>>
    /\ pc' = [pc EXCEPT ![t] = "stop_out_join"]
    /\ UNCHANGED <<subscribers, inbound_worker_thread, is_running, socket,
                   inbound_event_queue, inbound_lock, outbound_lock,
                   socket_lock, last_time_sent, now, sockState, wire, delivered,
                   messages, event, cbIdx, force_stop, stopCaller, outEvent,
                   result, exc, events, appended, handshake, startResult,
                   unreturned, notified, subsTouched, stayed, subCall, enqueued,
                   sentAt, stopCtx, stopDone, closedBy, shutdowns, closes,
                   stream, readPos, truncated_response, lines_out, decoder,
                   line, parsed, outgoing, dumped, event_queue, legacy_result,
                   legacy_pc, legacy_events, legacy_created, legacy_returned>>

\* line 500
StopOutboundJoin(t) ==
    /\ MayRun(t)
    /\ pc[t] = "stop_out_join"
    /\ Join(t, "stop_sock")
    /\ UNCHANGED <<subscribers, inbound_worker_thread, outbound_worker_thread,
                   is_running, socket, inbound_event_queue,
                   outbound_event_queue, inbound_lock, outbound_lock,
                   socket_lock, last_time_sent, now, sockState, wire, delivered,
                   outEvent, result, events, appended, unreturned, subCall,
                   enqueued, sentAt, stopDone, closedBy, shutdowns, closes,
                   stream, readPos, truncated_response, lines_out, decoder,
                   line, parsed, outgoing, dumped, event_queue, legacy_result,
                   legacy_pc, legacy_events, legacy_created, legacy_returned>>

\* stop() is over: it returns to the caller, or to line 519, which raises
StopReturn(t) ==
    /\ MayRun(t)
    /\ pc[t] = "stop_ret"
    /\ stopDone' = (stopDone \/ sockState # "unopened")
    /\ IF stopCaller[t] = "psm"
       THEN Raise(t, AuthError)
       ELSE /\ pc' = [pc EXCEPT ![t] = "idle"]
            /\ stopCtx' = NoStop
            /\ DropFrames(t)
            /\ UNCHANGED <<exc, startResult, handshake>>
    /\ UNCHANGED <<subscribers, inbound_worker_thread, outbound_worker_thread,
                   is_running, socket, inbound_event_queue,
                   outbound_event_queue, inbound_lock, outbound_lock,
                   socket_lock, last_time_sent, now, sockState, wire, delivered,
                   outEvent, result, events, appended, unreturned, subCall,
                   enqueued, sentAt, closedBy, shutdowns, closes, stream,
                   readPos, truncated_response, lines_out, decoder, line,
                   parsed, outgoing, dumped, event_queue, legacy_result,
                   legacy_pc, legacy_events, legacy_created, legacy_returned>>

\* line 502, the socket being set
StopSocketCheck(t) ==
    /\ MayRun(t)
    /\ pc[t] = "stop_sock"
    /\ socket # "None"
    /\ pc' = [pc EXCEPT ![t] = "stop_close"]
    /\ UNCHANGED <<subscribers, inbound_worker_thread, outbound_worker_thread,
                   is_running, socket, inbound_event_queue,
                   outbound_event_queue, inbound_lock, outbound_lock,
                   socket_lock, last_time_sent, now, sockState, wire, delivered,
                   messages, event, cbIdx, force_stop, worker, stopCaller,
                   outEvent, result, exc, events, appended, handshake,
                   startResult, unreturned, notified, subsTouched, stayed,
                   subCall, enqueued, sentAt, stopCtx, stopDone, closedBy,
                   shutdowns, closes, stream, readPos, truncated_response,
                   lines_out, decoder, line, parsed, outgoing, dumped,
                   event_queue, legacy_result, legacy_pc, legacy_events,
                   legacy_created, legacy_returned>>

\* line 502, no socket: nothing to close
StopNoSocket(t) ==
    /\ MayRun(t)
    /\ pc[t] = "stop_sock"
    /\ socket = "None"
    /\ pc' = [pc EXCEPT ![t] = "stop_ret"]
    /\ UNCHANGED <<subscribers, inbound_worker_thread, outbound_worker_thread,
                   is_running, socket, inbound_event_queue,
                   outbound_event_queue, inbound_lock, outbound_lock,
                   socket_lock, last_time_sent, now, sockState, wire, delivered,
                   messages, event, cbIdx, force_stop, worker, stopCaller,
                   outEvent, result, exc, events, appended, handshake,
                   startResult, unreturned, notified, subsTouched, stayed,
                   subCall, enqueued, sentAt, stopCtx, stopDone, closedBy,
                   shutdowns, closes, stream, readPos, truncated_response,
                   lines_out, decoder, line, parsed, outgoing, dumped,
                   event_queue, legacy_result, legacy_pc, legacy_events,
                   legacy_created, legacy_returned>>

\* lines 503 to 508 without line 505: the field keeps the socket
StopCloseKeepsSocket(t) ==
    /\ MayRun(t)
    /\ pc[t] = "stop_close"
    /\ socket_lock = "None"
    /\ sockState' = "closed"
    /\ shutdowns' = shutdowns + 1
    /\ closes' = closes + 1
    /\ closedBy' = t
    /\ pc' = [pc EXCEPT ![t] = "stop_ret"]
    /\ UNCHANGED <<subscribers, inbound_worker_thread, outbound_worker_thread,
                   is_running, socket, inbound_event_queue,
                   outbound_event_queue, inbound_lock, outbound_lock,
                   socket_lock, last_time_sent, now, wire, delivered, messages,
                   event, cbIdx, force_stop, worker, stopCaller, outEvent,
                   result, exc, events, appended, handshake, startResult,
                   unreturned, notified, subsTouched, stayed, subCall, enqueued,
                   sentAt, stopCtx, stopDone, stream, readPos,
                   truncated_response, lines_out, decoder, line, parsed,
                   outgoing, dumped, event_queue, legacy_result, legacy_pc,
                   legacy_events, legacy_created, legacy_returned>>

\* lines 503 to 508: under the socket lock take the socket, set the field to
\* None, shut the socket down and close it
StopClose(t) ==
    /\ MayRun(t)
    /\ pc[t] = "stop_close"
    /\ socket_lock = "None"
    /\ IF socket = "None"
       THEN /\ Raise(t, "AttributeError")
            /\ UNCHANGED <<socket, sockState, shutdowns, closes, closedBy>>
       ELSE /\ socket' = "None"
            /\ sockState' = "closed"
            /\ shutdowns' = shutdowns + 1
            /\ closes' = closes + 1
            /\ closedBy' = t
            /\ pc' = [pc EXCEPT ![t] = "stop_ret"]
            /\ UNCHANGED <<exc, startResult, handshake, messages, event, cbIdx,
                           force_stop, worker, stopCaller, notified, subsTouched, stayed, stopCtx>>
    /\ UNCHANGED <<subscribers, inbound_worker_thread, outbound_worker_thread,
                   is_running, inbound_event_queue, outbound_event_queue,
                   inbound_lock, outbound_lock, socket_lock, last_time_sent,
                   now, wire, delivered, outEvent, result, events, appended,
                   unreturned, subCall, enqueued, sentAt, stopDone, stream,
                   readPos, truncated_response, lines_out, decoder, line,
                   parsed, outgoing, dumped, event_queue, legacy_result,
                   legacy_pc, legacy_events, legacy_created, legacy_returned>>

(***************************************************************************)
(* inbound_worker, lines 406 to 439.  A read yields the complete lines of  *)
(* what has arrived (how the worker cuts the bytes into lines is           *)
(* InboundRead below); an empty read is a timeout, which the loop catches, *)
(* or bytes without a line end.                                            *)
(***************************************************************************)
\* line 414
InLoop(w) ==
    /\ MayRun(w)
    /\ pc[w] = "in_loop"
    /\ pc' = [pc EXCEPT ![w] = IF is_running THEN "in_lock" ELSE "done"]
    /\ UNCHANGED <<subscribers, inbound_worker_thread, outbound_worker_thread,
                   is_running, socket, inbound_event_queue,
                   outbound_event_queue, inbound_lock, outbound_lock,
                   socket_lock, last_time_sent, now, sockState, wire, delivered,
                   messages, event, cbIdx, force_stop, worker, stopCaller,
                   outEvent, result, exc, events, appended, handshake,
                   startResult, unreturned, notified, subsTouched, stayed,
                   subCall, enqueued, sentAt, stopCtx, stopDone, closedBy,
                   shutdowns, closes, stream, readPos, truncated_response,
                   lines_out, decoder, line, parsed, outgoing, dumped,
                   event_queue, legacy_result, legacy_pc, legacy_events,
                   legacy_created, legacy_returned>>

\* line 416
InLock(w) ==
    /\ MayRun(w)
    /\ pc[w] = "in_lock"
    /\ socket_lock = "None"
    /\ socket_lock' = w
    /\ pc' = [pc EXCEPT ![w] = "in_recv"]
    /\ UNCHANGED <<subscribers, inbound_worker_thread, outbound_worker_thread,
                   is_running, socket, inbound_event_queue,
                   outbound_event_queue, inbound_lock, outbound_lock,
                   last_time_sent, now, sockState, wire, delivered, messages,
                   event, cbIdx, force_stop, worker, stopCaller, outEvent,
                   result, exc, events, appended, handshake, startResult,
                   unreturned, notified, subsTouched, stayed, subCall, enqueued,
                   sentAt, stopCtx, stopDone, closedBy, shutdowns, closes,
                   stream, readPos, truncated_response, lines_out, decoder,
                   line, parsed, outgoing, dumped, event_queue, legacy_result,
                   legacy_pc, legacy_events, legacy_created, legacy_returned>>

\* an inbound worker that keeps the socket lock while it processes what it
\* has read: line 425 inside the with block of line 416
InRecvKeepsLock(w) ==
    /\ MayRun(w)
    /\ pc[w] = "in_recv"
    /\ IF socket = "None"
       THEN /\ Raise(w, "AttributeError")
            /\ UNCHANGED delivered
       ELSE \E b \in Batches :
            /\ delivered + Len(b) <= MaxLines
            /\ delivered' = delivered + Len(b)
            /\ messages' = [messages EXCEPT ![w] = b]
            /\ pc' = [pc EXCEPT ![w] = "psm"]
            /\ UNCHANGED <<exc, startResult, handshake, stopCtx, event, cbIdx,
                           force_stop, worker, stopCaller, notified, subsTouched, stayed>>
    /\ UNCHANGED <<subscribers, inbound_worker_thread, outbound_worker_thread,
                   is_running, socket, inbound_event_queue,
                   outbound_event_queue, inbound_lock, outbound_lock,
                   socket_lock, last_time_sent, now, sockState, wire, outEvent,
                   result, events, appended, unreturned, subCall, enqueued,
                   sentAt, stopDone, closedBy, shutdowns, closes, stream,
                   readPos, truncated_response, lines_out, decoder, line,
                   parsed, outgoing, dumped, event_queue, legacy_result,
                   legacy_pc, legacy_events, legacy_created, legacy_returned>>

\* lines 417 to 425
InRecv(w) ==
    /\ MayRun(w)
    /\ pc[w] = "in_recv"
    /\ socket_lock' = "None"
    /\ IF socket = "None"
       THEN /\ Raise(w, "AttributeError")
            /\ UNCHANGED delivered
       ELSE \E b \in Batches :
            /\ delivered + Len(b) <= MaxLines
            /\ delivered' = delivered + Len(b)
            /\ messages' = [messages EXCEPT ![w] = b]
            /\ pc' = [pc EXCEPT ![w] = "psm"]
            /\ UNCHANGED <<exc, startResult, handshake, stopCtx, event, cbIdx,
                           force_stop, worker, stopCaller, notified, subsTouched, stayed>>
    /\ UNCHANGED <<subscribers, inbound_worker_thread, outbound_worker_thread,
                   is_running, socket, inbound_event_queue,
                   outbound_event_queue, inbound_lock, outbound_lock,
                   last_time_sent, now, sockState, wire, outEvent, result,
                   events, appended, unreturned, subCall, enqueued, sentAt,
                   stopDone, closedBy, shutdowns, closes, stream, readPos,
                   truncated_response, lines_out, decoder, line, parsed,
                   outgoing, dumped, event_queue, legacy_result, legacy_pc,
                   legacy_events, legacy_created, legacy_returned>>

\* line 417, the transport failing: recv raises an OSError (the connection
\* was reset); lines 428 to 431 catch it and the loop goes on
InRecvFails(w) ==
    /\ MayRun(w)
    /\ pc[w] = "in_recv"
    /\ socket # "None"
    /\ socket_lock' = "None"
    /\ Raise(w, "OSError")
    /\ UNCHANGED <<subscribers, inbound_worker_thread, outbound_worker_thread,
                   is_running, socket, inbound_event_queue,
                   outbound_event_queue, inbound_lock, outbound_lock,
                   last_time_sent, now, sockState, wire, delivered, outEvent,
                   result, events, appended, unreturned, subCall, enqueued,
                   sentAt, stopDone, closedBy, shutdowns, closes, stream,
                   readPos, truncated_response, lines_out, decoder, line,
                   parsed, outgoing, dumped, event_queue, legacy_result,
                   legacy_pc, legacy_events, legacy_created, legacy_returned>>

(***************************************************************************)
(* outbound_worker, lines 441 to 463.                                      *)
(***************************************************************************)
\* line 449
OutLoop(w) ==
    /\ MayRun(w)
    /\ pc[w] = "out_loop"
    /\ pc' = [pc EXCEPT ![w] = IF is_running THEN "out_check" ELSE "done"]
    /\ UNCHANGED <<subscribers, inbound_worker_thread, outbound_worker_thread,
                   is_running, socket, inbound_event_queue,
                   outbound_event_queue, inbound_lock, outbound_lock,
                   socket_lock, last_time_sent, now, sockState, wire, delivered,
                   messages, event, cbIdx, force_stop, worker, stopCaller,
                   outEvent, result, exc, events, appended, handshake,
                   startResult, unreturned, notified, subsTouched, stayed,
                   subCall, enqueued, sentAt, stopCtx, stopDone, closedBy,
                   shutdowns, closes, stream, readPos, truncated_response,
                   lines_out, decoder, line, parsed, outgoing, dumped,
                   event_queue, legacy_result, legacy_pc, legacy_events,
                   legacy_created, legacy_returned>>

\* a line 451 that looks at the queue only
MaySendAnyTime == outbound_event_queue # <<>>

\* line 451: something is queued and the last send is more than the send
\* interval ago
MaySend == outbound_event_queue # <<>> /\ MoreThanInterval(now - last_time_sent)

\* line 451, and line 460 if there is nothing to send now
OutCheck(w) ==
    /\ MayRun(w)
    /\ pc[w] = "out_check"
    /\ pc' = [pc EXCEPT ![w] = IF MaySend THEN "out_pop" ELSE "out_loop"]
    /\ UNCHANGED <<subscribers, inbound_worker_thread, outbound_worker_thread,
                   is_running, socket, inbound_event_queue,
                   outbound_event_queue, inbound_lock, outbound_lock,
                   socket_lock, last_time_sent, now, sockState, wire, delivered,
                   messages, event, cbIdx, force_stop, worker, stopCaller,
                   outEvent, result, exc, events, appended, handshake,
                   startResult, unreturned, notified, subsTouched, stayed,
                   subCall, enqueued, sentAt, stopCtx, stopDone, closedBy,
                   shutdowns, closes, stream, readPos, truncated_response,
                   lines_out, decoder, line, parsed, outgoing, dumped,
                   event_queue, legacy_result, legacy_pc, legacy_events,
                   legacy_created, legacy_returned>>

\* a line 453 that takes the last element: pop() for pop(0)
OutPopLast(w) ==
    /\ MayRun(w)
    /\ pc[w] = "out_pop"
    /\ outbound_lock = "None"
    /\ IF outbound_event_queue = <<>>
       THEN /\ pc' = [pc EXCEPT ![w] = "crashed"]
            /\ exc' = [exc EXCEPT ![w] = "IndexError"]
            /\ UNCHANGED <<outEvent, outbound_event_queue>>
       ELSE /\ outEvent' = [outEvent EXCEPT ![w] =
                                Some(outbound_event_queue[Len(outbound_event_queue)])]
            /\ outbound_event_queue' =
                   SubSeq(outbound_event_queue, 1, Len(outbound_event_queue) - 1)
            /\ pc' = [pc EXCEPT ![w] = "out_send"]
            /\ UNCHANGED exc
    /\ UNCHANGED <<subscribers, inbound_worker_thread, outbound_worker_thread,
                   is_running, socket, inbound_event_queue, inbound_lock,
                   outbound_lock, socket_lock, last_time_sent, now, sockState,
                   wire, delivered, messages, event, cbIdx, force_stop, worker,
                   stopCaller, result, events, appended, handshake, startResult,
                   unreturned, notified, subsTouched, stayed, subCall, enqueued,
                   sentAt, stopCtx, stopDone, closedBy, shutdowns, closes,
                   stream, readPos, truncated_response, lines_out, decoder,
                   line, parsed, outgoing, dumped, event_queue, legacy_result,
                   legacy_pc, legacy_events, legacy_created, legacy_returned>>

\* lines 452 and 453
OutPop(w) ==
    /\ MayRun(w)
    /\ pc[w] = "out_pop"
    /\ outbound_lock = "None"
    /\ IF outbound_event_queue = <<>>
       THEN /\ pc' = [pc EXCEPT ![w] = "crashed"]
            /\ exc' = [exc EXCEPT ![w] = "IndexError"]
            /\ UNCHANGED <<outEvent, outbound_event_queue>>
       ELSE /\ outEvent' = [outEvent EXCEPT ![w] = Some(Head(outbound_event_queue))]
            /\ outbound_event_queue' = Tail(outbound_event_queue)
            /\ pc' = [pc EXCEPT ![w] = "out_send"]
            /\ UNCHANGED exc
    /\ UNCHANGED <<subscribers, inbound_worker_thread, outbound_worker_thread,
                   is_running, socket, inbound_event_queue, inbound_lock,
                   outbound_lock, socket_lock, last_time_sent, now, sockState,
                   wire, delivered, messages, event, cbIdx, force_stop, worker,
                   stopCaller, result, events, appended, handshake, startResult,
                   unreturned, notified, subsTouched, stayed, subCall, enqueued,
                   sentAt, stopCtx, stopDone, closedBy, shutdowns, closes,
                   stream, readPos, truncated_response, lines_out, decoder,
                   line, parsed, outgoing, dumped, event_queue, legacy_result,
                   legacy_pc, legacy_events, legacy_created, legacy_returned>>

\* lines 455 and 456
OutSend(w) ==
    /\ MayRun(w)
    /\ pc[w] = "out_send"
    /\ socket_lock = "None"
    /\ outEvent' = [outEvent EXCEPT ![w] = None]
    /\ IF socket = "None"
       THEN /\ pc' = [pc EXCEPT ![w] = "crashed"]
            /\ exc' = [exc EXCEPT ![w] = "AttributeError"]
            /\ UNCHANGED <<wire, sentAt>>
       ELSE /\ wire' = Append(wire, dumps(outEvent[w][1]))
            /\ sentAt' = now
            /\ pc' = [pc EXCEPT ![w] = "out_stamp"]
            /\ UNCHANGED exc
    /\ UNCHANGED <<subscribers, inbound_worker_thread, outbound_worker_thread,
                   is_running, socket, inbound_event_queue,
                   outbound_event_queue, inbound_lock, outbound_lock,
                   socket_lock, last_time_sent, now, sockState, delivered,
                   messages, event, cbIdx, force_stop, worker, stopCaller,
                   result, events, appended, handshake, startResult, unreturned,
                   notified, subsTouched, stayed, subCall, enqueued, stopCtx,
                   stopDone, closedBy, shutdowns, closes, stream, readPos,
                   truncated_response, lines_out, decoder, line, parsed,
                   outgoing, dumped, event_queue, legacy_result, legacy_pc,
                   legacy_events, legacy_created, legacy_returned>>

\* line 456, the transport failing: send raises an OSError (a broken pipe);
\* lines 462 and 463 catch it, the event taken from the queue is gone and
\* the loop goes on
OutSendFails(w) ==
    /\ MayRun(w)
    /\ pc[w] = "out_send"
    /\ socket_lock = "None"
    /\ socket # "None"
    /\ outEvent' = [outEvent EXCEPT ![w] = None]
    /\ pc' = [pc EXCEPT ![w] = "out_loop"]
    /\ UNCHANGED <<subscribers, inbound_worker_thread, outbound_worker_thread,
                   is_running, socket, inbound_event_queue,
                   outbound_event_queue, inbound_lock, outbound_lock,
                   socket_lock, last_time_sent, now, sockState, wire, delivered,
                   messages, event, cbIdx, force_stop, worker, stopCaller,
                   result, exc, events, appended, handshake, startResult,
                   unreturned, notified, subsTouched, stayed, subCall, enqueued,
                   sentAt, stopCtx, stopDone, closedBy, shutdowns, closes,
                   stream, readPos, truncated_response, lines_out, decoder,
                   line, parsed, outgoing, dumped, event_queue, legacy_result,
                   legacy_pc, legacy_events, legacy_created, legacy_returned>>

\* line 458
OutStamp(w) ==
    /\ MayRun(w)
    /\ pc[w] = "out_stamp"
    /\ last_time_sent' = now
    /\ pc' = [pc EXCEPT ![w] = "out_loop"]
    /\ UNCHANGED <<subscribers, inbound_worker_thread, outbound_worker_thread,
                   is_running, socket, inbound_event_queue,
                   outbound_event_queue, inbound_lock, outbound_lock,
                   socket_lock, now, sockState, wire, delivered, messages,
                   event, cbIdx, force_stop, worker, stopCaller, outEvent,
                   result, exc, events, appended, handshake, startResult,
                   unreturned, notified, subsTouched, stayed, subCall, enqueued,
                   sentAt, stopCtx, stopDone, closedBy, shutdowns, closes,
                   stream, readPos, truncated_response, lines_out, decoder,
                   line, parsed, outgoing, dumped, event_queue, legacy_result,
                   legacy_pc, legacy_events, legacy_created, legacy_returned>>

\* time passes; the clock is read by the outbound worker only (line 451,
\* when something is queued, and line 458), so it is moved only when that
\* worker is about to read it
Tick ==
    /\ \A t \in Threads : ~Urgent(t)
    /\ now < MaxTime
    /\ \E w \in OutboundWorkers :
        \/ pc[w] = "out_loop" /\ outbound_event_queue # <<>>
        \/ pc[w] = "out_send"
    /\ now' = now + 1
    /\ UNCHANGED <<subscribers, inbound_worker_thread, outbound_worker_thread,
                   is_running, socket, inbound_event_queue,
                   outbound_event_queue, inbound_lock, outbound_lock,
                   socket_lock, last_time_sent, sockState, wire, delivered, pc,
                   messages, event, cbIdx, force_stop, worker, stopCaller,
                   outEvent, result, exc, events, appended, handshake,
                   startResult, unreturned, notified, subsTouched, stayed,
                   subCall, enqueued, sentAt, stopCtx, stopDone, closedBy,
                   shutdowns, closes, stream, readPos, truncated_response,
                   lines_out, decoder, line, parsed, outgoing, dumped,
                   event_queue, legacy_result, legacy_pc, legacy_events,
                   legacy_created, legacy_returned>>

(***************************************************************************)
(* The specification.                                                      *)
(***************************************************************************)
Init == ObserverInit /\ DecoderIdle /\ CodecIdle /\ TwitchChatObserverInit

\* the caller listens: subscribe, unsubscribe, get_events
CallerListens ==
    \/ \E cb \in Callbacks : Subscribe(cb)
    \/ \E cb \in Callbacks : Unsubscribe(cb)
    \/ GetEventsSnapshot
    \/ GetEventsClear

\* the caller sends
CallerSends ==
    \/ \E n \in 1..MaxCmds : SendEventsLock([i \in 1..n |-> Script(enqueued + i)])
    \/ SendEventsAppend

\* the caller enqueues whatever it is given
CallerEnqueues ==
    \/ \E args \in ArgLists : SendEventsLock(args)
    \/ SendEventsAppend
    \/ SendEventsRaise

\* the caller starts and stops the observer
CallerLifecycle ==
    \/ StartConnect
    \/ StartRecv
    \/ StartInbound
    \/ StartOutbound
    \/ \E f \in BOOLEAN : StopCall(f)

\* _process_server_messages but for the calls of the callbacks
PsmStep(t) ==
    \/ PsmReturn(t)
    \/ PsmPong(t)
    \/ PsmAuthFail(t)
    \/ PsmMatch(t)
    \/ PsmNotifyDone(t)
    \/ PsmAppend(t)

StopStep(t) ==
    \/ StopWait(t)
    \/ StopInboundCheck(t)
    \/ StopInboundTake(t)
    \/ StopInboundJoin(t)
    \/ StopOutboundCheck(t)
    \/ StopOutboundTake(t)
    \/ StopOutboundJoin(t)
    \/ StopSocketCheck(t)
    \/ StopNoSocket(t)
    \/ StopClose(t)
    \/ StopReturn(t)

InboundStep ==
    \E w \in InboundWorkers : InLoop(w) \/ InLock(w) \/ InRecv(w) \/ InRecvFails(w)

\* the outbound worker with nothing queued
OutboundIdle == \E w \in OutboundWorkers : OutLoop(w) \/ OutCheck(w)

OutboundStep ==
    \/ OutboundIdle
    \/ \E w \in OutboundWorkers : OutPop(w) \/ OutSend(w) \/ OutStamp(w)

\* what the program does whatever the caller uses it for
Program ==
    \/ CallerLifecycle
    \/ \E t \in Runners : PsmStep(t)
    \/ \E t \in Runners : StopStep(t)
    \/ InboundStep

\* a caller that listens and sends nothing
NextListener ==
    \/ Program
    \/ CallerListens
    \/ \E t \in Runners : PsmNotify(t)
    \/ OutboundIdle

SpecListener == Init /\ [][NextListener]_vars

\* a caller that sends and does not listen: no callback is registered, so
\* none is called
NextSender ==
    \/ Program
    \/ CallerSends
    \/ OutboundStep
    \/ Tick

SpecSender == Init /\ [][NextSender]_vars

\* a caller that sends, the sends of the outbound workers failing at will
NextTransport ==
    \/ NextSender
    \/ \E w \in OutboundWorkers : OutSendFails(w)

SpecTransport == Init /\ [][NextTransport]_vars

\* a caller that only enqueues, on an observer that was not started
SpecEnqueue == Init /\ [][CallerEnqueues]_vars

\* a caller that starts the observer a second time and neither listens nor
\* sends
NextRestart ==
    \/ Program
    \/ StartAgain
    \/ OutboundIdle

SpecRestart == Init /\ [][NextRestart]_vars

\* stop() in the caller's thread on an observer that has no worker and no
\* socket
CallerStops ==
    \/ StopWait("main")
    \/ StopInboundCheck("main")
    \/ StopOutboundCheck("main")
    \/ StopNoSocket("main")
    \/ StopReturn("main")

\* a caller that enqueues and stops, on an observer that was not started
NextUnstarted ==
    \/ CallerEnqueues
    \/ \E f \in BOOLEAN : StopCall(f)
    \/ CallerStops

\* the caller's thread runs: a stop() that can take a step takes it
SpecUnstarted == Init /\ [][NextUnstarted]_vars /\ WF_vars(CallerStops)

Next ==
    \/ NextListener
    \/ NextTransport
    \/ NextRestart
    \/ CallerEnqueues
    \/ NextCodec
    \/ NextLegacy

Spec == Init /\ [][Next]_vars

\* the lines handed on when the whole stream arrives in one read
OneRead(s) == MessagesOf(Reassemble(<<>>, utf8_decode(s).text).response)

IsPrefix(a, b) == Len(a) <= Len(b) /\ SubSeq(b, 1, Len(a)) = a

\* C1: however the stream is cut into reads, the lines handed to
\* _process_server_messages are those of the single read: the worker is not
\* ended by a read, what it has handed on so far is a prefix of the single
\* read's lines, and once every byte is read it is all of them
C1_SplitInvariance ==
    /\ decoder # "UnicodeDecodeError"
    /\ IsPrefix(lines_out, OneRead(stream))
    /\ readPos = Len(stream) => lines_out = OneRead(stream)

\* the same for the reads that cut no character in two: there the
\* reassembly does give the single read's lines
SplitInvarianceWholeCharacters ==
    decoder # "UnicodeDecodeError" =>
        /\ IsPrefix(lines_out, OneRead(stream))
        /\ readPos = Len(stream) => lines_out = OneRead(stream)

\* C2: while the observer is running, get_events() is an atomic
\* snapshot-and-clear: the inbound queue holds exactly the events appended and
\* not yet returned, in arrival order, and the copy a get_events() call is
\* about to return is all of them, whatever the inbound worker does between the
\* copy and the clear; so each event is returned by exactly one call, in order,
\* and a call that follows another with no append returns the empty list
C2_GetEventsAtomic ==
    is_running =>
        /\ inbound_event_queue = unreturned
        /\ pc["main"] = "ge_clear" => result = unreturned

\* the caller is between the copy and the clear with one event copied, and the
\* inbound worker has the next event ready to append
C2_AppendMeetsSnapshot ==
    /\ is_running
    /\ pc["main"] = "ge_clear"
    /\ Len(result) = 1
    /\ pc["in"] = "psm_append"
    /\ event["in"] # None

\* the lines of the queued commands written to the socket, in order
IsCommandLine(l) == l \notin Range(LoginLines) /\ l # PongLiteral \o CRLF

Sent == SelectSeq(wire, IsCommandLine)

\* C3: a step that writes a queued command to the socket comes at least the
\* send interval after the write of the previous queued command, and the first
\* one at least the send interval after the initial last-send timestamp
\* (sentAt is the time of the last such write, and is that timestamp at first)
C3_RateLimit ==
    [][Len(Sent') > Len(Sent) => AtLeastInterval(now - sentAt)]_vars

\* the outbound worker has just written a queued command after an earlier one
C3_SecondTransmission ==
    /\ pc["out"] = "out_stamp"
    /\ Len(Sent) = 2
    /\ last_time_sent > 0

\* C4: a stop(force_stop=False) that finds the outbound queue non-empty stays
\* in its wait: the caller's stop() takes no step past the wait (it clears no
\* flag, joins no worker, closes nothing, does not return) while the queue is
\* non-empty
C4_GracefulStopWaits ==
    [][(pc["main"] = "stop_wait" /\ ~force_stop["main"]
          /\ outbound_event_queue # <<>>)
       => pc'["main"] = "stop_wait"]_vars

\* a stop(force_stop=False) that was called with commands queued has left its
\* wait
C4_LeftWaitAfterDrain ==
    /\ pc["main"] = "stop_in"
    /\ ~force_stop["main"]
    /\ stopCtx.queue > 0

\* the caller's stop(force_stop=False), called after a start() that succeeded
\* and while the socket was open, is returning
GracefulStopReturns ==
    /\ pc["main"] = "stop_ret"
    /\ stopCaller["main"] = "api"
    /\ ~force_stop["main"]
    /\ stopCtx.open
    /\ startResult = "ok"

\* C5: when a stop(force_stop=False) on a started observer has closed the
\* socket and is about to return, every command enqueued before the call has
\* been written to the socket, the one the outbound worker had popped when the
\* queue was found empty included (the sends succeed: the socket stays open
\* until this stop() closes it)
C5_GracefulStopLosesNothing ==
    (GracefulStopReturns /\ closedBy = "main") =>
        /\ Len(Sent) >= stopCtx.enq
        /\ \A i \in 1..stopCtx.enq : Sent[i] = dumps(Script(i))

\* such a stop() found the queue empty while the outbound worker held a popped
\* command, and is about to return
C5_PoppedCommandWritten ==
    /\ GracefulStopReturns
    /\ closedBy = "main"
    /\ stopCtx.popped
    /\ stopCtx.enq = 2

\* the caller is inside a stop(force_stop=True)
ForcedStop ==
    /\ pc["main"] \in StopPcs
    /\ stopCaller["main"] = "api"
    /\ force_stop["main"]

StartFails == InStart("main") /\ startResult' \notin {"None", "ok"}

\* the connection was shut down and closed, the field is None, and no worker
\* was created
TornDownBeforePumps ==
    /\ socket = "None"
    /\ sockState = "closed"
    /\ shutdowns = 1
    /\ closes = 1
    /\ inbound_worker_thread = "None"
    /\ outbound_worker_thread = "None"
    /\ pc["in"] = "unstarted"
    /\ pc["out"] = "unstarted"

\* a step of start() that neither goes on to create the workers nor ends
\* start() in another way than with the authentication error, raised after
\* the teardown
StopsAtAuthFailure ==
    /\ pc'["main"] \notin {"start_in", "start_out"}
    /\ StartFails => (startResult' = AuthError /\ TornDownBeforePumps')

\* C7: if the handshake response holds the authentication failure line,
\* start() does not go on to create the workers, and it ends with the
\* authentication error, raised after the connection was shut down, closed
\* and set to None, no worker having been created
C7_AuthFailureAtStartup ==
    [][(AuthFailLiteral \in Range(handshake)) => StopsAtAuthFailure]_vars

\* the same for the handshake responses whose lines all parse without error
AuthFailureAtStartupParsedLines ==
    [][(AuthFailLiteral \in Range(handshake) /\ BadTagLine \notin Range(handshake))
          => StopsAtAuthFailure]_vars

\* thread t takes the step of _process_server_messages that handles the
\* first of the lines it still has
Handles(t) ==
    /\ pc[t] = "psm"
    /\ messages[t] # <<>>
    /\ <<pc[t], messages[t]>>' # <<pc[t], messages[t]>>

PongLine == PongLiteral \o CRLF

\* handling the line starts no dispatch and appends no event
NoEventFrom(t) ==
    /\ pc'[t] # "psm_notify"
    /\ notified'[t] = <<>>
    /\ inbound_event_queue' = inbound_event_queue

\* C8: the step that handles a line equal to the ping literal writes exactly
\* one pong line to the socket, starts no dispatch and appends no event; the
\* step that handles any other line writes nothing
C8_Keepalive ==
    [][\A t \in Runners : Handles(t) =>
          IF Head(messages[t]) = PingLiteral
          THEN wire' = Append(wire, PongLine) /\ NoEventFrom(t)
          ELSE wire' = wire]_vars

\* C8, amended: the same while the socket field is set; a ping line handled
\* after stop() has set the field to None gets no pong, and still starts no
\* dispatch and appends no event
C8_KeepaliveWhileOpen ==
    [][\A t \in Runners : Handles(t) =>
          IF Head(messages[t]) = PingLiteral
          THEN /\ wire' = IF socket # "None" THEN Append(wire, PongLine) ELSE wire
               /\ NoEventFrom(t)
          ELSE wire' = wire]_vars

\* the inbound worker, a callback being registered, has just answered the
\* ping line that came first in a read of two lines
C8_PongWritten ==
    /\ subscribers # <<>>
    /\ pc["in"] = "psm"
    /\ messages["in"] = <<JoinLine>>
    /\ wire # <<>>
    /\ wire[Len(wire)] = PongLine
    /\ inbound_event_queue = <<>>

\* the fields of the Observer, and the socket object with what was done to it
ObserverState ==
    <<subscribers, inbound_worker_thread, outbound_worker_thread, is_running,
      socket, inbound_event_queue, outbound_event_queue, inbound_lock,
      outbound_lock, socket_lock, last_time_sent, sockState, wire, shutdowns,
      closes>>

\* a step of a stop() that the caller called after an earlier stop() had
\* completed
LateStopStep ==
    /\ stopCtx.late
    /\ pc["main"] \in StopPcs
    /\ pc'["main"] # pc["main"]

\* the socket is shut down and closed at most once; once a stop() that
\* followed start() has completed, exactly once, and the field is None
ClosedOnce ==
    /\ closes <= 1
    /\ shutdowns <= 1
    /\ stopDone => (socket = "None" /\ sockState = "closed"
                      /\ closes = 1 /\ shutdowns = 1)

\* C9: a stop() called after an earlier stop() has completed changes no field
\* of the observer and does nothing to the socket; over the stop() calls that
\* follow one start() the socket is shut down and closed exactly once and the
\* field is None afterwards
C9_IdempotentTeardown ==
    [][ClosedOnce' /\ (LateStopStep => UNCHANGED ObserverState)]_vars

\* the caller's second stop() after a start(), the first one having closed
\* the socket, is about to return
C9_SecondStopReturns ==
    /\ stopCtx.late
    /\ pc["main"] = "stop_ret"
    /\ closes = 1
    /\ closedBy = "main"

\* C10: when a dispatch ends and the event is about to be appended, every
\* callback that was registered throughout has been invoked, and when the
\* subscriber list did not change meanwhile the callbacks invoked are those
\* of the list, once per registration and in registration order, a raising
\* callback included
C10_DispatcherIsolation ==
    \A t \in Runners : pc[t] = "psm_append" =>
        /\ stayed[t] \subseteq Range(notified[t])
        /\ ~subsTouched[t] => notified[t] = subscribers

\* the same for the dispatches during which the subscriber list does not change
DispatchOfUnchangedList ==
    \A t \in Runners : (pc[t] = "psm_append" /\ ~subsTouched[t]) =>
        notified[t] = subscribers

\* how often x occurs in the sequence s
Occurrences(s, x) == Cardinality({i \in 1..Len(s) : s[i] = x})

\* C11: subscribe and unsubscribe are safe while a dispatch is under way: when
\* the dispatch ends, every callback that was registered when it began and
\* was not unsubscribed since has been invoked for the event, at least once
\* and no more often than it is registered
C11_SubscribeUnsubscribeSafe ==
    \A t \in Runners : \A cb \in Callbacks :
        (pc[t] = "psm_append" /\ cb \in stayed[t]) =>
            /\ Occurrences(notified[t], cb) >= 1
            /\ Occurrences(notified[t], cb) <= Occurrences(subscribers, cb)

\* the pass of the loop of _send_events that is about to raise BadEvent
RaisesBadEvent == pc["main"] = "se_append" /\ ~IsEvent(Head(events))

\* C12: a call of _send_events whose arguments include a value that is no
\* Event raises BadEvent having appended nothing from that call, and the
\* outbound lock is not held once the call is over, however it ended
C12_EnqueueValidation ==
    /\ RaisesBadEvent => appended = 0
    /\ pc["main"] = "idle" => outbound_lock # "main"

\* the lock's half of it: the outbound lock is released on both paths
EnqueueReleasesLock == pc["main"] = "idle" => outbound_lock # "main"

\* the parts of the line that was parsed
Origins == {sm \in ServerMessages : Render(sm) = line}

\* the kinds the table gives the four commands it names; every command
\* outside the table of Event.__init__ has the generic kind
KindOf(cmd) ==
    CASE cmd = CmdJOIN -> "TWITCHCHATJOIN"
      [] cmd = CmdPART -> "TWITCHCHATLEAVE"
      [] cmd = CmdPRIVMSG -> "TWITCHCHATMESSAGE"
      [] cmd = CmdWHISPER -> "TWITCHCHATWHISPER"
      [] cmd \in {CmdCAP, Cmd001} -> "TWITCHCHATCOMMAND"
      [] OTHER -> command_to_type(cmd)

\* the event has the kind, the raw command, the sender and the fields of
\* the parts sm
MapsTo(e, sm) ==
    /\ e.type = KindOf(sm.part.cmd)
    /\ e.command = sm.part.cmd
    /\ e.nickname = Some(sm.sender.nick)
    /\ sm.part.cmd \in {CmdJOIN, CmdPART, CmdUSERSTATE, CmdROOMSTATE, CmdPRIVMSG}
           => e.channel = sm.part.channel
    /\ sm.part.cmd \in {CmdPRIVMSG, CmdWHISPER} => e.message = sm.part.body
    /\ sm.part.cmd = CmdWHISPER => e.channel = None

\* C13: every well-formed line is dispatched as an event whose kind is the
\* one the table gives its command, whose command is the raw token, whose
\* nickname is the sender, and whose channel and message are those of the
\* parameters of JOIN, PART, USERSTATE, ROOMSTATE, PRIVMSG and WHISPER
C13_CommandMapping ==
    \A sm \in Origins : parsed # None =>
        /\ parsed[1].kind = "event"
        /\ MapsTo(parsed[1].event, sm)

\* the same for the lines without a tag block and but for the nickname of a
\* MODE line
CommandMappingUntagged ==
    \A sm \in Origins : (parsed # None /\ sm.tags = <<>>) =>
        /\ parsed[1].kind = "event"
        /\ sm.part.cmd # CmdMODE => MapsTo(parsed[1].event, sm)

\* the mapping the entries stand for: each key to its value
TagMapping(entries) ==
    [k \in {entries[i][1] : i \in 1..Len(entries)} |->
        entries[CHOOSE i \in 1..Len(entries) : entries[i][1] = k][2]]

\* C14: parsing a line with a tag block never raises, and the event's tag
\* mapping has one key per entry, mapped to what follows the entry's first
\* '=': the empty string for 'color=', the whole remainder when the value
\* holds '=' itself
C14_TagParsing ==
    \A sm \in Origins : (parsed # None /\ sm.tags # <<>>) =>
        /\ parsed[1].kind = "event"
        /\ parsed[1].event.tags = Some(TagMapping(sm.tags))

\* the same for the tag blocks whose values hold no '='
TagParsingPlainValues ==
    \A sm \in Origins :
        (parsed # None /\ sm.tags # <<>>
            /\ \A i \in 1..Len(sm.tags) : ~Contains(sm.tags[i][2], <<"=">>)) =>
        /\ parsed[1].kind = "event"
        /\ parsed[1].event.tags = Some(TagMapping(sm.tags))

\* the line of the wire format for a verb, a channel and a body, each of the
\* last two absent or given
WireLine(e) ==
    e.command
        \o (IF e.channel = None THEN <<>> ELSE <<" ", "#">> \o e.channel[1])
        \o (IF e.message = None THEN <<>> ELSE <<" ", ":">> \o e.message[1])
        \o CRLF

\* C15: the line written for a command is 'V #c :b' and CR LF, 'V #c' and
\* CR LF without a body, and has no channel segment when the channel is absent
C15_WireFormat == dumped # None => dumped[1] = WireLine(outgoing[1])

\* the same for the commands that have a channel
WireFormatWithChannel ==
    (dumped # None /\ outgoing[1].channel # None) => dumped[1] = WireLine(outgoing[1])

\* the caller's last call was the unsubscribe(cb) that came right after the
\* subscribe(cb) that registered cb
Undone(cb) == subCall # None /\ subCall[1].kind = "undone" /\ subCall[1].cb = cb

\* after such a pair the subscriber list is the list before the subscribe,
\* and after an unsubscribe of an unregistered callback it is the list before
\* that call
ListRestored ==
    subCall # None =>
        /\ subCall[1].kind = "undone" =>
               subscribers = subCall[1].before /\ subCall[1].cb \notin Range(subscribers)
        /\ subCall[1].kind = "noop" => subscribers = subCall[1].before

\* a step that invokes the callback cb
Invokes(cb) == \E t \in Runners : notified'[t] = Append(notified[t], cb)

\* C16: after subscribe(cb) immediately followed by unsubscribe(cb), cb not
\* having been registered before, the subscriber list is the list before the
\* subscribe and no step invokes cb; unsubscribe(cb) for a cb that is not
\* registered leaves the list as it was
C16_Removal ==
    [][ListRestored' /\ \A cb \in Callbacks : Undone(cb) => ~Invokes(cb)]_vars

\* a dispatch goes on after an unsubscribe(cb) that undid the subscribe(cb)
\* before it
C16_DispatchAfterRemoval ==
    /\ subCall # None
    /\ subCall[1].kind = "undone"
    /\ pc["in"] = "psm_append"
    /\ notified["in"] # <<>>

\* the caller's stop(force_stop=True), called after a start() that succeeded
\* and not after an earlier stop(), is returning
ForcedStopReturns ==
    /\ pc["main"] = "stop_ret"
    /\ stopCaller["main"] = "api"
    /\ force_stop["main"]
    /\ stopCtx.open
    /\ startResult = "ok"

\* the flag is cleared and the observer refers to no worker thread
NotRunning ==
    /\ ~is_running
    /\ inbound_worker_thread = "None"
    /\ outbound_worker_thread = "None"

\* C17: when stop(force_stop=True) returns on a started observer, the running
\* flag is false, the observer refers to no worker thread, and the inbound and
\* the outbound queue are empty
C17_StateAfterForcedStop ==
    ForcedStopReturns =>
        /\ NotRunning
        /\ inbound_event_queue = <<>>
        /\ outbound_event_queue = <<>>

\* the same without the inbound queue
StateAfterForcedStopButInbound ==
    ForcedStopReturns => NotRunning /\ outbound_event_queue = <<>>

\* the locks thread t holds
LocksHeld(t) ==
    {l \in {"inbound", "outbound", "socket"} :
        \/ l = "inbound" /\ inbound_lock = t
        \/ l = "outbound" /\ outbound_lock = t
        \/ l = "socket" /\ socket_lock = t}

\* thread t is at a with statement whose lock another thread holds
WaitsForLock(t) ==
    \/ pc[t] \in {"in_lock", "stop_close", "out_send"} /\ socket_lock \notin {"None", t}
    \/ t \in Runners /\ pc[t] = "psm" /\ messages[t] # <<>>
          /\ IsPing(Head(messages[t])) /\ socket_lock \notin {"None", t}
    \/ pc[t] = "psm_append" /\ inbound_lock \notin {"None", t}
    \/ pc[t] = "out_pop" /\ outbound_lock \notin {"None", t}

\* thread t is in the loop of _notify_subscribers with a callback to call
RunsCallback(t) ==
    t \in Runners /\ pc[t] = "psm_notify" /\ cbIdx[t] < Len(subscribers)

\* C18: no thread holds more than one of the three locks, a thread that is
\* calling the subscribers holds none, and a thread that waits for a lock
\* holds none, so that no threads wait for each other's locks in a cycle
C18_LockDiscipline ==
    \A t \in Threads :
        /\ Cardinality(LocksHeld(t)) <= 1
        /\ RunsCallback(t) => LocksHeld(t) = {}
        /\ WaitsForLock(t) => LocksHeld(t) = {}

\* the inbound worker is calling the subscribers while the caller holds the
\* inbound lock in get_events()
C18_CallbackWhileLockHeld ==
    /\ RunsCallback("in")
    /\ notified["in"] # <<>>
    /\ inbound_lock = "main"

\* the errors a worker meets because stop() has set the socket field to None
\* or has replaced the outbound queue
ShutdownErrors == {"AttributeError", "IndexError"}

\* C19: no worker is ended by an error it meets because of a deliberate
\* shutdown: what it meets when it touches the connection after stop() has
\* closed it and set the field to None is swallowed by its loop
C19_CleanPumpExit ==
    \A t \in {"in", "out"} : pc[t] = "crashed" => exc[t] \notin ShutdownErrors

\* the step that ends the inbound worker's own stop(True), the one it called
\* for the authentication failure line, and with it the worker
InboundTeardownEnds ==
    /\ stopCaller["in"] = "psm"
    /\ pc["in"] \in StopPcs
    /\ pc'["in"] \in {"done", "crashed"}

\* the running flag is cleared, the socket was shut down and closed and the
\* field is None
TornDown ==
    /\ ~is_running
    /\ socket = "None"
    /\ sockState = "closed"
    /\ shutdowns >= 1
    /\ closes >= 1

\* C20: when the inbound worker has received the authentication failure line
\* after a successful start(), the observer is torn down: the inbound worker
\* does not end before the running flag is cleared and the socket is shut
\* down, closed and set to None
C20_AuthFailureInPump == [][InboundTeardownEnds => TornDown']_vars

\* thread w is a worker whose loop swallows, in this step, the OSError of its
\* read (line 417) or of its send (line 456), and goes on
Swallows(w) ==
    \/ pc[w] = "in_recv" /\ pc'[w] = "in_loop"
    \/ pc[w] = "out_send" /\ pc'[w] = "out_loop"

\* the observer is running and no stop() has been called
NoStopRequested ==
    /\ is_running
    /\ \A t \in Runners : pc[t] \notin StopPcs

\* C21: a transport failure (OSError) that a worker meets in its read or in
\* its send while the observer is running and no stop() has been requested
\* is not swallowed: it propagates out of the worker's loop, which ends the
\* worker
C21_TransportFailurePropagates ==
    [][\A w \in InboundWorkers \cup OutboundWorkers :
          (NoStopRequested /\ Swallows(w)) => pc'[w] = "crashed"]_vars

\* the commands the caller has appended to the outbound queue, in the order
\* of the appends, as they are written to the socket
AppendedLines == [i \in 1..enqueued |-> dumps(Script(i))]

\* the command worker w has popped and not yet handed to send
HeldBy(w) == IF outEvent[w] = None THEN <<>> ELSE <<dumps(outEvent[w][1])>>

\* the commands that were written, then those the outbound workers hold, then
\* those still queued
Accounted ==
    Sent \o HeldBy("out") \o HeldBy("out2")
         \o [i \in 1..Len(outbound_event_queue) |-> dumps(outbound_event_queue[i])]

\* s is t with some elements left out
RECURSIVE IsSubseq(_, _)
IsSubseq(s, t) ==
    IF s = <<>> THEN TRUE
    ELSE IF t = <<>> THEN FALSE
    ELSE IF Head(s) = Head(t) THEN IsSubseq(Tail(s), Tail(t))
    ELSE IsSubseq(s, Tail(t))

\* C22: every command appended to the outbound queue is removed by the
\* outbound worker only and written to the socket exactly once, in the order
\* of the appends: the commands written, the one the worker holds and the
\* ones queued are, in this order, the commands appended
C22_FifoExactlyOnce == Accounted = AppendedLines

\* a command leaves without having been written in this step, which is
\* line 499 of stop() or the send of line 456 by a worker
Discards == Len(Accounted') < Len(Accounted)

DiscardStep ==
    \/ \E t \in Runners : pc[t] = "stop_out_take"
    \/ \E w \in OutboundWorkers : pc[w] = "out_send" /\ pc'[w] # "out_stamp"

\* C22, as it holds: no command is written or removed twice and the order of
\* the appends is kept (the commands written, held and queued are, in this
\* order, the commands appended with some left out); a command is left out
\* only when stop() replaces the queue or when the send of the command the
\* worker has popped fails
C22_FifoAtMostOnce ==
    [][IsSubseq(Accounted', AppendedLines') /\ (Discards => DiscardStep)]_vars

\* two commands were written, in the order of their appends
C22_TwoWrittenInOrder ==
    /\ enqueued = 2
    /\ Sent = AppendedLines

\* the parts of the line that was parsed, when its parameters are malformed
MalformedOrigins == {sm \in MalformedMessages : Render(sm) = line}

\* the event of a line whose parameters did not match: kind, nickname and
\* tags are those of the line, channel and message are not set
Lenient(e, sm) ==
    /\ e.type = KindOf(sm.part.cmd)
    /\ e.nickname = Some(sm.sender.nick)
    /\ e.tags = (IF sm.tags = <<>> THEN None ELSE Some(TagMapping(sm.tags)))
    /\ e.channel = None
    /\ e.message = None

\* C23: a PRIVMSG, HOSTTARGET, NOTICE, USERNOTICE or MODE line whose
\* parameters do not match the command's pattern raises no error: it is parsed
\* to an event, which is what is handed to the subscribers and appended to
\* the inbound queue, with the kind, the nickname and the tags of the line
\* and with channel and message left unset
C23_LenientParsing ==
    \A sm \in MalformedOrigins : parsed # None =>
        /\ parsed[1].kind = "event"
        /\ Lenient(parsed[1].event, sm)

\* the same for the lines whose tag values hold no '='
LenientParsingPlainTags ==
    \A sm \in MalformedOrigins :
        (parsed # None /\ \A i \in 1..Len(sm.tags) : ~Contains(sm.tags[i][2], <<"=">>)) =>
        /\ parsed[1].kind = "event"
        /\ Lenient(parsed[1].event, sm)

\* the line was parsed to an event of kind Reconnect, which is what is handed
\* to the subscribers and appended to the inbound queue
ParsedReconnect ==
    /\ parsed[1].kind = "event"
    /\ parsed[1].event.type = "TWITCHCHATRECONNECT"
    /\ parsed[1].event.command = CmdRECONNECT

\* C25: a reconnect line of the server, a sender followed by the command
\* RECONNECT with or without parameters after it, is parsed to an event of kind
\* Reconnect, which is dispatched and queued like any other event
C25_ReconnectNotification ==
    (line \in ReconnectLines /\ parsed # None) => ParsedReconnect

\* the same for the reconnect lines that have at least a space after the
\* command
ReconnectFollowedBySpace ==
    (line \in ReconnectLines /\ parsed # None
        /\ ~LitAt(line, Len(line) - Len(CmdRECONNECT) + 1, CmdRECONNECT))
    => ParsedReconnect

\* thread t, inside stop(), comes to a join in this step (lines 494 and 500)
EntersJoin(t) ==
    /\ pc'[t] \in {"stop_in_join", "stop_out_join"}
    /\ pc'[t] # pc[t]

\* thread t, inside stop(), shuts the socket down and closes it in this step
Closes(t) == pc[t] = "stop_close" /\ pc'[t] = "stop_ret"

\* C24: stop() clears the running flag, then closes the connection, then
\* joins the workers: when a join begins the flag is cleared and the socket is
\* no longer open, so that a worker inside a read is released by the close
C24_TeardownOrder ==
    [][\A t \in Runners : EntersJoin(t) => (~is_running' /\ sockState' # "open")]_vars

\* the order of the code: the flag is cleared and both workers were taken
\* (and joined) when the socket is closed
TeardownOrderJoinsFirst ==
    [][\A t \in Runners : Closes(t) =>
          /\ ~is_running
          /\ inbound_worker_thread = "None"
          /\ outbound_worker_thread = "None"]_vars

\* C26: a line whose bytes are split between the read of start() and the
\* first read of the inbound worker is reassembled: wherever the read of
\* start() ends, the lines handed to _process_server_messages are those of
\* the stream read at once (no fragment is handed on by itself), as long as
\* no read cuts a character in two
C26_HandshakeReassembly ==
    decoder = "running" =>
        /\ IsPrefix(lines_out, OneRead(stream))
        /\ readPos = Len(stream) => lines_out = OneRead(stream)

\* the caller is inside a stop(force_stop=False)
InGracefulStop ==
    /\ pc["main"] \in StopPcs
    /\ stopCaller["main"] = "api"
    /\ ~force_stop["main"]

\* C27: a stop(force_stop=False) returns in the end, whatever the state it
\* is called in (here: the workers were never started); the caller enqueues
\* nothing meanwhile, being inside stop()
C27_GracefulStopTerminates == InGracefulStop ~> (pc["main"] = "idle")

\* the same for the calls that find the outbound queue empty
GracefulStopOfEmptyQueueTerminates ==
    (InGracefulStop /\ outbound_event_queue = <<>>) ~> (pc["main"] = "idle")

\* C28: no outbound worker pops from an empty outbound queue: what it found
\* at line 451, without the outbound lock, still holds when it pops at
\* line 453, whatever the caller's enqueue calls and stop() do in between;
\* list.pop(0) never raises IndexError
C28_PopFindsCommand ==
    \A w \in OutboundWorkers :
        /\ pc[w] = "out_pop" => outbound_event_queue # <<>>
        /\ exc[w] # "IndexError"

\* the same as long as no stop() has cleared the running flag
PopFindsCommandWhileRunning ==
    is_running =>
        \A w \in OutboundWorkers :
            /\ pc[w] = "out_pop" => outbound_event_queue # <<>>
            /\ exc[w] # "IndexError"

\* worker w was started and has not ended: it is executing its loop
InItsLoop(w) == pc[w] \notin {"unstarted", "done", "crashed"}

\* C29: whatever start() and stop() calls are made on the observer, at most
\* one inbound worker and at most one outbound worker are executing their
\* loops at any time
C29_SinglePumpPair ==
    /\ Cardinality({w \in InboundWorkers : InItsLoop(w)}) <= 1
    /\ Cardinality({w \in OutboundWorkers : InItsLoop(w)}) <= 1

\* worker w has not been started, or is at the test of its loop (lines 414
\* and 449), or has left its loop: it holds no lock, reads nothing, sends
\* nothing and processes nothing
Quiet(w) == pc[w] \in {"unstarted", "in_loop", "out_loop", "done"}

\* the steps of the running flag: it is cleared by line 488 of stop() and by
\* nothing else, and once cleared it stays cleared
FlagSteps ==
    /\ (is_running /\ ~is_running') => \E t \in Runners : pc[t] = "stop_wait"
    /\ ~is_running => ~is_running'

\* C30: the running flag is true from the construction until a stop() (the
\* caller's, or the one of the authentication failure) clears it, and no
\* operation sets it again; so a worker that is started while the flag is
\* cleared, as those of a start() that follows a stop() are, only tests the
\* flag and leaves its loop: it takes no lock, reads and sends nothing and
\* delivers no event
C30_RunningFlagMonotonic ==
    [][/\ FlagSteps
       /\ \A w \in InboundWorkers \cup OutboundWorkers :
             (~is_running /\ Quiet(w)) => Quiet(w)']_vars

\* a start() that follows a stop() has come to line 468: it has started its
\* inbound worker, the second of the observer, with the flag cleared
C30_StartedAfterStop ==
    /\ ~is_running
    /\ pc["main"] = "start_out"
    /\ inbound_worker_thread = "in2"
    /\ pc["in2"] = "in_loop"

(***************************************************************************)
(* C31: in TwitchChatObserver, get_events() is atomic with respect to the  *)
(* worker's append.                                                        *)
(***************************************************************************)
\* the events the worker has appended to the queue so far, in order
LegacyAppended == [i \in 1..(legacy_created - Len(legacy_events)) |-> i]

\* C31: whenever no get_events() is under way, every event the worker has
\* appended has been returned by exactly one get_events() call or is still in
\* the queue for the next call: the events returned so far followed by the
\* queue are the appended events, each once and in order
C31_GetEventsAtomic ==
    legacy_pc.caller = "idle" => legacy_returned \o event_queue = LegacyAppended

\* the part of C31 that holds of the code: no event is returned twice, and the
\* events come back in the order they were appended
GetEventsNeverRepeats ==
    \A i, j \in 1..Len(legacy_returned) : i < j => legacy_returned[i] < legacy_returned[j]

\* a get_events() has returned events while the worker had appended more
GetEventsReturnedSome ==
    /\ legacy_pc.caller = "idle"
    /\ Len(legacy_returned) >= 2
    /\ event_queue # <<>>

====
